---- MODULE Spec2Model ----
(***************************************************************************)
(* Model of the speech-analysis core of SpeechAIfeedback:                  *)
(*   src/speech_analyzer.py  SpeechAnalyzer (feature extraction, text      *)
(*                           analysis, scoring, analyze_speech)            *)
(*   src/ai_analyzer.py      AIAnalyzer (analyze_speech_performance, the   *)
(*                           validation of the backend's response, the     *)
(*                           rule-based fallback)                          *)
(*   src/audio_processor.py  AudioProcessor (loading with fallbacks,       *)
(*                           transcription, feature extraction)            *)
(*   src/app.py              speech_analysis_page (the Analyze Speech      *)
(*                           handler)                                      *)
(*                                                                         *)
(* Numbers.  Python floats are modelled in fixed point: an integer x       *)
(* stands for x / Scale.  A float that may be not-a-number is a record     *)
(* [fin, v]: F(x) is the finite value x / Scale and NaN is numpy's nan.    *)
(* Divisions round towards minus infinity and square roots down, so a      *)
(* modelled value is within one unit of 1/Scale per operation of the real  *)
(* one.                                                                    *)
(*                                                                         *)
(* Waveforms.  A numpy sample array is modelled run-length encoded: a      *)
(* sequence of runs [val, n], n consecutive samples of amplitude val.      *)
(***************************************************************************)
EXTENDS Integers, Sequences, FiniteSets, TLC

VARIABLES
    audio_data,        \* analyze_speech argument: the waveform, as runs
    sample_rate,       \* analyze_speech argument
    transcript,        \* analyze_speech argument: a sequence of characters
    pc,                \* position inside analyze_speech
    audio_features,    \* local of analyze_speech (line 19)
    text_analysis,     \* local of analyze_speech (line 22)
    words_per_minute,  \* local of analyze_speech (line 26)
    volume_stability,  \* local of analyze_speech (line 30)
    confidence_score,  \* local of analyze_speech (line 33)
    metrics,           \* the returned record (line 40)
    error,             \* message of the exception analyze_speech raised, or ""
    args,              \* parameters of a directly called method
    ret,               \* its return value
    client,            \* AIAnalyzer.client: None or the OpenAI client
    ai_pc,             \* position inside analyze_speech_performance
    content,           \* local of analyze_speech_performance (line 40)
    result,            \* local of analyze_speech_performance (line 43)
    requests,          \* calls of client.chat.completions.create so far
    failed,            \* the step of the try block that failed, or ""
    path,              \* which path produced the report: "external", "fallback"
    loader,            \* AudioProcessor.load_audio in progress: pc and locals
    transcriber,       \* AudioProcessor.transcribe_audio in progress
    page               \* the Analyze Speech handler of speech_analysis_page

vars == << audio_data, sample_rate, transcript, pc, audio_features,
           text_analysis, words_per_minute, volume_stability,
           confidence_score, metrics, error, args, ret,
           client, ai_pc, content, result, requests, failed, path,
           loader, transcriber, page >>

pipeline_vars == << audio_data, sample_rate, transcript, pc, audio_features,
                    text_analysis, words_per_minute, volume_stability,
                    confidence_score, metrics, error >>

ai_vars == << client, ai_pc, content, result, requests, failed, path >>

app_vars == << loader, transcriber, page >>

(***************************************************************************)
(* Bounds of the model.                                                    *)
(***************************************************************************)
MaxHops == 9          \* waveforms hold up to MaxHops hops (+ a partial one)
MaxRms == 4           \* length of the RMS sequences given to the scorer
MaxPieces == 3        \* pieces concatenated into a generated transcript
MaxWpmTens == 30      \* the scorer is given paces up to 10 * MaxWpmTens wpm

(***************************************************************************)
(* Fixed point.                                                            *)
(***************************************************************************)
\* one unit of a fixed-point number is 1 / Scale
Scale == 10 ^ 2

NaN == [fin |-> FALSE, v |-> 0]
F(x) == [fin |-> TRUE, v |-> x]
None == [none |-> TRUE]
Some(x) == [none |-> FALSE, value |-> x]

Max(a, b) == IF a >= b THEN a ELSE b
Min(a, b) == IF a <= b THEN a ELSE b

RECURSIVE ISqrtIn(_, _, _)
ISqrtIn(x, lo, hi) ==
    IF lo >= hi THEN lo
    ELSE LET mid == (lo + hi + 1) \div 2
         IN  IF mid * mid <= x THEN ISqrtIn(x, mid, hi)
                               ELSE ISqrtIn(x, lo, mid - 1)

\* floor(sqrt(x)) for 0 <= x < 2^30
ISqrt(x) == ISqrtIn(x, 0, Min(x, 32767))

RECURSIVE SumSeq(_)
SumSeq(s) == IF s = << >> THEN 0 ELSE Head(s) + SumSeq(Tail(s))

RECURSIVE FloorLog2(_)
FloorLog2(x) == IF x < 2 THEN 0 ELSE 1 + FloorLog2(x \div 2)

Pow2(n) == 2 ^ n

\* log2(x) * Scale for an integer x >= 1, linear between powers of two
Log2Fixed(x) ==
    LET n == FloorLog2(x)
    IN  n * Scale + ((x - Pow2(n)) * Scale) \div Pow2(n)

(***************************************************************************)
(* Float sequences: np.mean, np.var over a numpy array of floats.          *)
(***************************************************************************)
AnyNaN(xs) == \E k \in 1..Len(xs) : ~xs[k].fin

Values(xs) == [k \in 1..Len(xs) |-> xs[k].v]

\* (d / Scale)^2 in fixed point
SqFixed(d) == (d * d) \div Scale

\* np.mean(xs): nan (with a RuntimeWarning, no exception) for an empty array
NpMean(xs) ==
    IF Len(xs) = 0 THEN NaN
    ELSE IF AnyNaN(xs) THEN NaN
    ELSE F(SumSeq(Values(xs)) \div Len(xs))

\* np.var(xs): mean(|x - mean(x)|^2), nan for an empty array
NpVar(xs) ==
    IF Len(xs) = 0 THEN NaN
    ELSE IF AnyNaN(xs) THEN NaN
    ELSE LET m == SumSeq(Values(xs)) \div Len(xs)
         IN  F(SumSeq([k \in 1..Len(xs) |-> SqFixed(xs[k].v - m)]) \div Len(xs))

(***************************************************************************)
(* Waveforms: run-length encoded sample arrays.                            *)
(***************************************************************************)
RECURSIVE NumSamples(_)
\* len(audio_data)
NumSamples(runs) ==
    IF runs = << >> THEN 0 ELSE Head(runs).n + NumSamples(Tail(runs))

RECURSIVE SliceRuns(_, _, _, _)
SliceRuns(runs, pos, i, j) ==
    IF runs = << >> THEN << >>
    ELSE LET r == Head(runs)
             lo == Max(pos, i)
             hi == Min(pos + r.n, j)
             rest == SliceRuns(Tail(runs), pos + r.n, i, j)
         IN  IF hi > lo THEN << [val |-> r.val, n |-> hi - lo] >> \o rest
                        ELSE rest

\* audio_data[i:j]
Slice(runs, i, j) == SliceRuns(runs, 0, i, j)

\* range(start, stop, step) for step > 0, as a sequence
PyRange(start, stop, step) ==
    LET n == IF stop > start THEN (stop - start + step - 1) \div step ELSE 0
    IN  [k \in 1..n |-> start + (k - 1) * step]

\* np.mean(frame**2)
MeanSquare(frame) ==
    LET N == NumSamples(frame)
    IN  IF N = 0 THEN NaN
        ELSE IF \E k \in 1..Len(frame) : ~frame[k].val.fin THEN NaN
        ELSE F(SumSeq([k \in 1..Len(frame) |->
                         frame[k].n * frame[k].val.v * frame[k].val.v]) \div N)

\* np.sqrt(np.mean(frame**2)); MeanSquare is in units of 1 / Scale^2
FrameRms(frame) ==
    LET ms == MeanSquare(frame)
    IN  IF ms.fin THEN F(ISqrt(ms.v)) ELSE NaN

\* np.sign(x): -1, 0, 1 or nan
Sign(x) == IF ~x.fin THEN NaN ELSE F(IF x.v > 0 THEN 1 ELSE IF x.v < 0 THEN -1 ELSE 0)

\* np.sum(np.diff(np.sign(frame)) != 0): a difference with nan is nan, and nan != 0
DiffNonZero(frame) ==
    LET inside == SumSeq([k \in 1..Len(frame) |->
                            IF frame[k].val.fin THEN 0 ELSE frame[k].n - 1])
        between == Cardinality({k \in 1..(Len(frame) - 1) :
                       \/ ~frame[k].val.fin
                       \/ ~frame[k + 1].val.fin
                       \/ Sign(frame[k].val) # Sign(frame[k + 1].val)})
    IN  inside + between

\* np.sum(np.diff(np.sign(frame)) != 0) / (2 * len(frame))
FrameZcr(frame) == (DiffNonZero(frame) * Scale) \div (2 * NumSamples(frame))

\* 20 * np.log10(np.maximum(rms, 1e-10)) = 6.021 * (log2(v) - log2(Scale));
\* np.maximum propagates nan, and 1e-10 is below the fixed-point resolution,
\* so only rms = 0 is floored (to -200 dB)
RmsToDb(rms) ==
    IF ~rms.fin THEN NaN
    ELSE IF rms.v = 0 THEN F(-200 * Scale)
    ELSE F((6021 * (Log2Fixed(rms.v) - Log2Fixed(Scale))) \div 1000)

\* f, psd = signal.welch(audio_data, sample_rate, nperseg=1024);
\* np.sum(f * psd) / np.sum(psd).  The spectrum itself is not modelled, only
\* whether the quotient is defined: an empty input gives empty f and psd, a
\* constant input has no power left after welch's constant detrend, and in
\* both cases the quotient is 0/0 = nan (numpy warns, it does not raise);
\* otherwise the centroid is some frequency between 0 and sample_rate / 2.
WelchCentroid(runs, sr) ==
    IF NumSamples(runs) = 0 THEN {NaN}
    ELSE IF \E k \in 1..Len(runs) : ~runs[k].val.fin THEN {NaN}
    ELSE IF \A k \in 1..Len(runs) : runs[k].val = runs[1].val THEN {NaN}
    ELSE {F(0), F((sr \div 2) * Scale)}

frame_length == 2048
hop_length == 512

\* the loop of lines 76 and 96: for i in range(0, len(audio_data) - frame_length, hop_length)
FrameStarts(runs) == PyRange(0, NumSamples(runs) - frame_length, hop_length)

\* frame = audio_data[i:i+frame_length]
FrameAt(runs, i) == Slice(runs, i, i + frame_length)

\* a variant that rejects an empty waveform
ExtractRaisesOnEmpty(runs, sr) == sr = 0 \/ NumSamples(runs) = 0

\* SpeechAnalyzer._extract_audio_features raises: ZeroDivisionError at line 68
\* when sample_rate is 0, and nothing else (numpy's means and quotients over
\* nothing warn and give nan, welch of an empty array gives empty arrays)
ExtractRaises(runs, sr) == sr = 0

\* SpeechAnalyzer._extract_audio_features, the spectral centroid being sc

ExtractAudioFeatures(runs, sr, sc) ==
    LET starts == FrameStarts(runs)
        rms == [k \in 1..Len(starts) |-> FrameRms(FrameAt(runs, starts[k]))]
        rms_db == [k \in 1..Len(rms) |-> RmsToDb(rms[k])]
        zcr_values == [k \in 1..Len(starts) |-> F(FrameZcr(FrameAt(runs, starts[k])))]
    IN  [ duration |-> (NumSamples(runs) * Scale) \div sr,
          rms_values |-> rms,
          avg_volume_db |-> NpMean(rms_db),
          volume_variance |-> NpVar(rms_db),
          spectral_centroid |-> sc,
          zero_crossing_rate |-> NpMean(zcr_values),
          tempo |-> 120 ]

(***************************************************************************)
(* Scoring: SpeechAnalyzer._calculate_volume_stability and                 *)
(* SpeechAnalyzer._calculate_confidence_score.                             *)
(***************************************************************************)
IsValidRms(x) == x.fin /\ x.v > 0

\* np.std(xs) of finite values: sqrt(mean(|x - mean|^2))
NpStd(vals) ==
    LET m == SumSeq(vals) \div Len(vals)
    IN  ISqrt(SumSeq([k \in 1..Len(vals) |-> (vals[k] - m) * (vals[k] - m)])
              \div Len(vals))

\* a variant without the guard of lines 191-192: the mean of nothing is nan,
\* and max(1.0, min(10.0, nan)) is 10.0
CalculateVolumeStabilityUnguarded(rms) ==
    IF Len(rms) = 0 THEN 5 * Scale
    ELSE LET valid_rms == Values(SelectSeq(rms, IsValidRms))
         IN  IF Len(valid_rms) = 0 THEN 10 * Scale
             ELSE LET mean_rms == SumSeq(valid_rms) \div Len(valid_rms)
                      cv == (NpStd(valid_rms) * Scale) \div mean_rms
                  IN  Max(1 * Scale, Min(10 * Scale, 10 * Scale - cv * 10))

\* a variant whose filter keeps the silent frames (rms_values >= 0)
CalculateVolumeStabilityKeepZeros(rms) ==
    IF Len(rms) = 0 THEN 5 * Scale
    ELSE LET valid_rms == Values(SelectSeq(rms, LAMBDA x : x.fin /\ x.v >= 0))
         IN  IF Len(valid_rms) = 0 THEN 5 * Scale
             ELSE LET mean_rms == SumSeq(valid_rms) \div Len(valid_rms)
                      std_rms == NpStd(valid_rms)
                  IN  IF mean_rms = 0 THEN 5 * Scale
                      ELSE LET cv == (std_rms * Scale) \div mean_rms
                           IN  Max(1 * Scale, Min(10 * Scale, 10 * Scale - cv * 10))

\* lines 179-210; the except branch is not reached by sequences of floats
CalculateVolumeStability(rms) ==
    IF Len(rms) = 0 THEN 5 * Scale
    ELSE LET valid_rms == Values(SelectSeq(rms, IsValidRms))
         IN  IF Len(valid_rms) = 0 THEN 5 * Scale
             ELSE LET mean_rms == SumSeq(valid_rms) \div Len(valid_rms)
                      std_rms == NpStd(valid_rms)
                  IN  IF mean_rms = 0 THEN 5 * Scale
                      ELSE LET cv == (std_rms * Scale) \div mean_rms
                           IN  Max(1 * Scale, Min(10 * Scale, 10 * Scale - cv * 10))

\* a variant that clamps from above only
CalculateConfidenceScoreNoFloor(wpm, filler_percentage, stability) ==
    LET base == 10 * Scale
        paced == IF wpm < 120 * Scale THEN base - (120 * Scale - wpm) \div 20
                 ELSE IF wpm > 200 * Scale THEN base - (wpm - 200 * Scale) \div 30
                 ELSE base
        filled == paced - filler_percentage \div 5
        score == filled - (10 * Scale - stability) \div 2
    IN  Min(10 * Scale, score)

\* a variant that penalises a fast pace like a slow one, by /20
CalculateConfidenceScoreSamePenalty(wpm, filler_percentage, stability) ==
    LET base == 10 * Scale
        paced == IF wpm < 120 * Scale THEN base - (120 * Scale - wpm) \div 20
                 ELSE IF wpm > 200 * Scale THEN base - (wpm - 200 * Scale) \div 20
                 ELSE base
        filled == paced - filler_percentage \div 5
        score == filled - (10 * Scale - stability) \div 2
    IN  Max(1 * Scale, Min(10 * Scale, score))

\* lines 159-177
CalculateConfidenceScore(wpm, filler_percentage, stability) ==
    LET base == 10 * Scale
        paced == IF wpm < 120 * Scale THEN base - (120 * Scale - wpm) \div 20
                 ELSE IF wpm > 200 * Scale THEN base - (wpm - 200 * Scale) \div 30
                 ELSE base
        filled == paced - filler_percentage \div 5
        score == filled - (10 * Scale - stability) \div 2
    IN  Max(1 * Scale, Min(10 * Scale, score))

(***************************************************************************)
(* Text analysis: SpeechAnalyzer._analyze_text.  A transcript is a         *)
(* sequence of one-character strings; a word is a string.                  *)
(***************************************************************************)
LowerCase == << "a", "b", "c", "d", "e", "f", "g", "h", "i", "j", "k", "l", "m", "n", "o", "p", "q", "r", "s", "t", "u", "v", "w", "x", "y", "z" >>
UpperCase == << "A", "B", "C", "D", "E", "F", "G", "H", "I", "J", "K", "L", "M", "N", "O", "P", "Q", "R", "S", "T", "U", "V", "W", "X", "Y", "Z" >>
Digits == {"0", "1", "2", "3", "4", "5", "6", "7", "8", "9"}

\* str.lower() on one character
LowerChar(c) ==
    IF \E k \in 1..Len(UpperCase) : UpperCase[k] = c
    THEN LowerCase[CHOOSE k \in 1..Len(UpperCase) : UpperCase[k] = c]
    ELSE c

\* transcript.lower()
Lower(chars) == [k \in 1..Len(chars) |-> LowerChar(chars[k])]

\* the regular expression class \w
IsWordChar(c) ==
    \/ \E k \in 1..Len(LowerCase) : LowerCase[k] = c \/ UpperCase[k] = c
    \/ c \in Digits
    \/ c = "_"

\* the characters str.strip() removes
IsSpace(c) == c \in {" ", "\t", "\n"}

\* not transcript.strip()
IsBlank(chars) == \A k \in 1..Len(chars) : IsSpace(chars[k])

RECURSIVE FindWords(_, _, _)
FindWords(chars, k, cur) ==
    LET done == IF cur = "" THEN << >> ELSE << cur >>
    IN  IF k > Len(chars) THEN done
        ELSE IF IsWordChar(chars[k]) THEN FindWords(chars, k + 1, cur \o chars[k])
        ELSE done \o FindWords(chars, k + 1, "")

\* re.findall(r'\b\w+\b', chars): the maximal runs of word characters
Tokenize(chars) == FindWords(chars, 1, "")

\* self.filler_words, each filler given as its filler.split()
filler_words == <<
    << "um" >>, << "uh" >>, << "er" >>, << "ah" >>, << "like" >>,
    << "you", "know" >>, << "actually" >>, << "basically" >>,
    << "literally" >>, << "so" >>, << "well" >>, << "okay" >>, << "right" >>,
    << "i", "mean" >>, << "sort", "of" >>, << "kind", "of" >>,
    << "you", "see" >>, << "obviously" >>, << "clearly" >>, << "honestly" >> >>

RECURSIVE JoinWords(_)
\* the filler string: its words joined by single spaces
JoinWords(ws) ==
    IF Len(ws) = 1 THEN ws[1] ELSE ws[1] \o " " \o JoinWords(Tail(ws))

FillerStrings == {JoinWords(filler_words[k]) : k \in 1..Len(filler_words)}

RECURSIVE JoinChars(_, _, _)
\* the string chars[p..q]
JoinChars(chars, p, q) ==
    IF p > q THEN "" ELSE chars[p] \o JoinChars(chars, p + 1, q)

\* the regular expression \b between chars[p - 1] and chars[p]
WordBoundary(chars, p) ==
    LET before == p - 1 >= 1 /\ IsWordChar(chars[p - 1])
        after == p <= Len(chars) /\ IsWordChar(chars[p])
    IN  before # after

\* a variant that searches for the filler without the two \b
MatchesAtNoBoundary(chars, p, filler) ==
    LET q == p + Len(filler) - 1
    IN  q <= Len(chars) /\ JoinChars(chars, p, q) = filler

\* r'\b' + re.escape(filler) + r'\b' matches at position p
MatchesAt(chars, p, filler) ==
    LET q == p + Len(filler) - 1
    IN  /\ q <= Len(chars)
        /\ JoinChars(chars, p, q) = filler
        /\ WordBoundary(chars, p)
        /\ WordBoundary(chars, q + 1)

RECURSIVE CountMatchesFrom(_, _, _)
CountMatchesFrom(chars, p, filler) ==
    IF p > Len(chars) THEN 0
    ELSE IF MatchesAt(chars, p, filler)
         THEN 1 + CountMatchesFrom(chars, p + Len(filler), filler)
         ELSE CountMatchesFrom(chars, p + 1, filler)

\* len(re.findall(r'\b' + re.escape(filler) + r'\b', chars)): the matches
\* found left to right, none overlapping an earlier one
CountMatches(chars, filler) == CountMatchesFrom(chars, 1, filler)

\* lines 128-131: the words that are fillers, in order
SingleFillers(words) == SelectSeq(words, LAMBDA w : w \in FillerStrings)

RECURSIVE Repeat(_, _)
\* [x] * n
Repeat(x, n) == IF n <= 0 THEN << >> ELSE << x >> \o Repeat(x, n - 1)

RECURSIVE MultiCountEveryFiller(_, _)
\* a variant without the test of line 136: every filler is searched for
MultiCountEveryFiller(chars, k) ==
    IF k > Len(filler_words) THEN 0
    ELSE CountMatches(chars, JoinWords(filler_words[k]))
             + MultiCountEveryFiller(chars, k + 1)

RECURSIVE MultiCount(_, _)
\* lines 135-138: the matches of the multi-word fillers from the k-th on
MultiCount(chars, k) ==
    IF k > Len(filler_words) THEN 0
    ELSE LET f == filler_words[k]
         IN  (IF Len(f) > 1 THEN CountMatches(chars, JoinWords(f)) ELSE 0)
                 + MultiCount(chars, k + 1)

RECURSIVE MultiFillers(_, _)
\* lines 135-140: found_fillers.extend([filler] * count) for each multi-word filler
MultiFillers(chars, k) ==
    IF k > Len(filler_words) THEN << >>
    ELSE LET f == filler_words[k]
             found == IF Len(f) > 1
                      THEN Repeat(JoinWords(f), CountMatches(chars, JoinWords(f)))
                      ELSE << >>
         IN  found \o MultiFillers(chars, k + 1)

\* number of entries of xs equal to x
CountOf(xs, x) == Cardinality({k \in 1..Len(xs) : xs[k] = x})

\* the distinct entries of xs in order of first occurrence (Counter's key order)
Distinct(xs) ==
    LET first == {k \in 1..Len(xs) : \A j \in 1..(k - 1) : xs[j] # xs[k]}
        nth(n) == CHOOSE k \in first : Cardinality({j \in first : j < k}) = n - 1
    IN  [n \in 1..Cardinality(first) |-> xs[nth(n)]]

RECURSIVE SortByCount(_, _)
\* sorted(keys, key=count, reverse=True): stable, so ties keep the key order
SortByCount(keys, xs) ==
    IF keys = << >> THEN << >>
    ELSE LET best == CHOOSE k \in 1..Len(keys) :
                        /\ \A j \in 1..Len(keys) : CountOf(xs, keys[j]) <= CountOf(xs, keys[k])
                        /\ \A j \in 1..(k - 1) : CountOf(xs, keys[j]) < CountOf(xs, keys[k])
             rest == [j \in 1..(Len(keys) - 1) |-> IF j < best THEN keys[j] ELSE keys[j + 1]]
         IN  << keys[best] >> \o SortByCount(rest, xs)

\* a variant that keeps Counter's key order: the first n distinct entries
MostCommonUnsorted(xs, n) ==
    SubSeq(Distinct(xs), 1, Min(n, Len(Distinct(xs))))

\* [word for word, _ in Counter(xs).most_common(n)]
MostCommon(xs, n) ==
    LET sorted == SortByCount(Distinct(xs), xs)
    IN  SubSeq(sorted, 1, Min(n, Len(sorted)))

\* lines 108-157
AnalyzeText(chars) ==
    IF IsBlank(chars)
    THEN [ word_count |-> 0, filler_count |-> 0, filler_percentage |-> 0,
           common_fillers |-> << >>, avg_word_length |-> 0 ]
    ELSE LET words == Tokenize(Lower(chars))
             word_count == Len(words)
             found_fillers == SingleFillers(words) \o MultiFillers(Lower(chars), 1)
             filler_count == Len(SingleFillers(words)) + MultiCount(Lower(chars), 1)
         IN  [ word_count |-> word_count,
               filler_count |-> filler_count,
               filler_percentage |->
                   IF word_count > 0
                   THEN (filler_count * 100 * Scale) \div word_count
                   ELSE 0,
               common_fillers |-> MostCommon(found_fillers, 5),
               avg_word_length |->
                   IF word_count > 0
                   THEN (SumSeq([k \in 1..word_count |-> Len(words[k])]) * Scale)
                            \div word_count
                   ELSE 0 ]

(***************************************************************************)
(* SpeechAnalyzer.analyze_speech as a state machine.                       *)
(***************************************************************************)
\* lines 25-26: duration = len(audio_data) / sample_rate is > 0 exactly when
\* the waveform has a sample; (word_count / duration) * 60.
\* WordsPerSecond is a variant without the * 60.
WordsPerSecond(word_count, n, sr) ==
    IF n > 0 THEN (word_count * sr * Scale) \div n ELSE 0

WordsPerMinute(word_count, n, sr) ==
    IF n > 0 THEN (word_count * sr * 60 * Scale) \div n ELSE 0

\* lines 40-56
BuildMetrics(n, sr, features, text, wpm, stability, confidence) ==
    [ duration |-> (n * Scale) \div sr,
      total_words |-> text.word_count,
      words_per_minute |-> wpm,
      confidence_score |-> confidence,
      filler_count |-> text.filler_count,
      filler_percentage |-> text.filler_percentage,
      common_fillers |-> text.common_fillers,
      avg_word_length |-> text.avg_word_length,
      volume_stability |-> stability,
      avg_volume |-> features.avg_volume_db,
      volume_variance |-> features.volume_variance,
      spectral_centroid |-> features.spectral_centroid,
      zero_crossing_rate |-> features.zero_crossing_rate,
      rms_values |-> features.rms_values,
      tempo |-> features.tempo ]

\* line 19, raising: the exception is wrapped at lines 60-61
ExtractFeaturesRaise ==
    /\ pc = "called"
    /\ ExtractRaises(audio_data, sample_rate)
    /\ pc' = "raised"
    /\ error' = "Speech analysis failed: division by zero"
    /\ UNCHANGED << audio_data, sample_rate, transcript, audio_features,
                    text_analysis, words_per_minute, volume_stability,
                    confidence_score, metrics, args, ret, ai_vars, app_vars >>

\* line 19
ExtractFeatures ==
    /\ pc = "called"
    /\ ~ExtractRaises(audio_data, sample_rate)
    /\ \E sc \in WelchCentroid(audio_data, sample_rate) :
           audio_features' = ExtractAudioFeatures(audio_data, sample_rate, sc)
    /\ pc' = "features"
    /\ UNCHANGED << audio_data, sample_rate, transcript, text_analysis,
                    words_per_minute, volume_stability, confidence_score,
                    metrics, error, args, ret, ai_vars, app_vars >>

\* a variant that treats a transcript without speech as an error
AnalyzeTranscriptRejectingBlank ==
    /\ pc = "features"
    /\ IF IsBlank(transcript)
       THEN /\ pc' = "raised"
            /\ error' = "Speech analysis failed: No speech detected"
            /\ UNCHANGED text_analysis
       ELSE /\ pc' = "text"
            /\ text_analysis' = AnalyzeText(transcript)
            /\ UNCHANGED error
    /\ UNCHANGED << audio_data, sample_rate, transcript, audio_features,
                    words_per_minute, volume_stability, confidence_score,
                    metrics, args, ret, ai_vars, app_vars >>

\* line 22
AnalyzeTranscript ==
    /\ pc = "features"
    /\ text_analysis' = AnalyzeText(transcript)
    /\ pc' = "text"
    /\ UNCHANGED << audio_data, sample_rate, transcript, audio_features,
                    words_per_minute, volume_stability, confidence_score,
                    metrics, error, args, ret, ai_vars, app_vars >>

\* lines 25-37
Score ==
    /\ pc = "text"
    /\ LET wpm == WordsPerMinute(text_analysis.word_count,
                                 NumSamples(audio_data), sample_rate)
           stability == CalculateVolumeStability(audio_features.rms_values)
       IN  /\ words_per_minute' = wpm
           /\ volume_stability' = stability
           /\ confidence_score' =
                  CalculateConfidenceScore(wpm, text_analysis.filler_percentage,
                                           stability)
    /\ pc' = "scored"
    /\ UNCHANGED << audio_data, sample_rate, transcript, audio_features,
                    text_analysis, metrics, error, args, ret, ai_vars, app_vars >>

\* lines 40-58
Return ==
    /\ pc = "scored"
    /\ metrics' = BuildMetrics(NumSamples(audio_data), sample_rate,
                               audio_features, text_analysis, words_per_minute,
                               volume_stability, confidence_score)
    /\ pc' = "returned"
    /\ UNCHANGED << audio_data, sample_rate, transcript, audio_features,
                    text_analysis, words_per_minute, volume_stability,
                    confidence_score, error, args, ret, ai_vars, app_vars >>

(***************************************************************************)
(* Inputs.                                                                 *)
(***************************************************************************)
\* sample amplitudes: silence, half and full scale, and a non-finite sample
Amplitudes == {F(0), F(Scale \div 2), F(-Scale), NaN}

\* lengths at, just after and just before every hop boundary
Lengths == {k * hop_length + d : k \in 0..MaxHops, d \in {0, 1, hop_length - 1}}

\* a waveform of n samples: a up to a hop boundary, b after it
TwoRuns(n, split, a, b) ==
    LET n1 == Min(n, split)
    IN  (IF n1 > 0 THEN << [val |-> a, n |-> n1] >> ELSE << >>)
            \o (IF n - n1 > 0 THEN << [val |-> b, n |-> n - n1] >> ELSE << >>)

Waveforms ==
    {TwoRuns(n, s * hop_length, a, b) :
        n \in Lengths, s \in 0..MaxHops, a \in Amplitudes, b \in Amplitudes}

SampleRates == {0, 16000}

Pieces == {<< "u", "m" >>,
           << "S", "o" >>,
           << "y", "o", "u", " ", "k", "n", "o", "w" >>,
           << "k", "i", "n", "d", " ", "o", "f" >>,
           << "o", "f" >>,
           << " " >>,
           << "," >>,
           << "_" >>}

RECURSIVE Concat(_)
Concat(ps) == IF ps = << >> THEN << >> ELSE Head(ps) \o Concat(Tail(ps))

PieceSeqs(n) == UNION {[1..m -> Pieces] : m \in 0..n}

Scenario == Concat(<< << "u", "m" >>, << " " >>,
    << "s", "o" >>, << " " >>,
    << "b", "a", "s", "i", "c", "a", "l", "l", "y" >>, << " " >>,
    << "I" >>, << " " >>,
    << "t", "h", "i", "n", "k" >>, << " " >>,
    << "u", "h" >>, << " " >>,
    << "t", "h", "i", "s" >>, << " " >>,
    << "i", "s" >>, << " " >>,
    << "l", "i", "k", "e" >>, << " " >>,
    << "r", "e", "a", "l", "l", "y" >>, << " " >>,
    << "g", "o", "o", "d" >>, << " " >>,
    << "y", "o", "u" >>, << " " >>,
    << "k", "n", "o", "w" >> >>)

\* seven distinct fillers, found 1, 2, 1, 1, 3, 2 and 1 times
TieScenario == Concat(<< << "u", "m" >>, << " " >>,
    << "s", "o" >>, << " " >>,
    << "s", "o" >>, << " " >>,
    << "u", "h" >>, << " " >>,
    << "l", "i", "k", "e" >>, << " " >>,
    << "e", "r" >>, << " " >>,
    << "e", "r" >>, << " " >>,
    << "e", "r" >>, << " " >>,
    << "y", "o", "u", " ", "k", "n", "o", "w" >>, << " " >>,
    << "k", "i", "n", "d", " ", "o", "f" >>, << " " >>,
    << "y", "o", "u", " ", "k", "n", "o", "w" >> >>)

\* the transcripts given to _analyze_text
Transcripts ==
    {Concat(ps) : ps \in PieceSeqs(MaxPieces)} \cup {Scenario, TieScenario}

\* the transcripts given to analyze_speech: none, blank, white space of
\* three kinds, one filler, a two-word filler
SpeechTranscripts ==
    {<< >>, << " " >>, << " ", "\n", "\t" >>, << "u", "m" >>,
     << "y", "o", "u", " ", "k", "n", "o", "w" >>}

NotCalled ==
    /\ audio_data = << >>
    /\ sample_rate = 0
    /\ transcript = << >>
    /\ pc = "idle"
    /\ audio_features = None
    /\ text_analysis = None
    /\ words_per_minute = 0
    /\ volume_stability = 0
    /\ confidence_score = 0
    /\ metrics = None
    /\ error = ""

\* no analyze_speech_performance call in progress
AINotCalled ==
    /\ client = None
    /\ ai_pc = "idle"
    /\ content = None
    /\ result = None
    /\ requests = 0
    /\ failed = ""
    /\ path = ""

\* no load_audio, transcribe_audio or page handler in progress
AppNotCalled ==
    /\ loader = None
    /\ transcriber = None
    /\ page = None

Init ==
    /\ audio_data \in Waveforms
    /\ sample_rate \in SampleRates
    /\ transcript \in SpeechTranscripts
    /\ pc = "called"
    /\ audio_features = None
    /\ text_analysis = None
    /\ words_per_minute = 0
    /\ volume_stability = 0
    /\ confidence_score = 0
    /\ metrics = None
    /\ error = ""
    /\ args = None
    /\ ret = None
    /\ AINotCalled
    /\ AppNotCalled

Next ==
    \/ ExtractFeaturesRaise
    \/ ExtractFeatures
    \/ AnalyzeTranscript
    \/ Score
    \/ Return

Spec == Init /\ [][Next]_vars

(***************************************************************************)
(* The methods called on their own.                                        *)
(***************************************************************************)
CallAnalyzeText ==
    /\ args.fn = "_analyze_text"
    /\ ret = None
    /\ ret' = Some(AnalyzeText(args.transcript))
    /\ UNCHANGED << pipeline_vars, args, ai_vars, app_vars >>

CallCalculateConfidenceScore ==
    /\ args.fn = "_calculate_confidence_score"
    /\ ret = None
    /\ ret' = Some(CalculateConfidenceScore(args.wpm, args.filler_percentage,
                                            args.volume_stability))
    /\ UNCHANGED << pipeline_vars, args, ai_vars, app_vars >>

CallCalculateVolumeStability ==
    /\ args.fn = "_calculate_volume_stability"
    /\ ret = None
    /\ ret' = Some(CalculateVolumeStability(args.rms_values))
    /\ UNCHANGED << pipeline_vars, args, ai_vars, app_vars >>

InitText ==
    /\ NotCalled
    /\ AINotCalled
    /\ AppNotCalled
    /\ args \in {[fn |-> "_analyze_text", transcript |-> t] : t \in Transcripts}
    /\ ret = None

SpecText == InitText /\ [][CallAnalyzeText]_vars

\* paces at and next to every multiple of 10 wpm
WpmGrid == {w \in {10 * k * Scale + d : k \in 0..MaxWpmTens, d \in {-1, 0, 1}} : w >= 0}

\* filler percentages 0, 5, ..., 100, and those of the scenarios
FillerGrid == {5 * k * Scale : k \in 0..20} \cup {1 * Scale, AnalyzeText(Scenario).filler_percentage}

\* volume stabilities 1, 1.5, ..., 10
StabilityGrid == {(k * Scale) \div 2 : k \in 2..20}

InitConfidence ==
    /\ NotCalled
    /\ AINotCalled
    /\ AppNotCalled
    /\ args \in {[fn |-> "_calculate_confidence_score", wpm |-> w,
                  filler_percentage |-> f, volume_stability |-> v] :
                     w \in WpmGrid, f \in FillerGrid, v \in StabilityGrid}
    /\ ret = None

SpecConfidence == InitConfidence /\ [][CallCalculateConfidenceScore]_vars

\* RMS values: silent, non-finite, barely audible, and three levels
RmsGrid == {F(0), NaN, F(1), F(Scale \div 4), F(Scale \div 2), F(Scale)}

InitVolume ==
    /\ NotCalled
    /\ AINotCalled
    /\ AppNotCalled
    /\ args \in {[fn |-> "_calculate_volume_stability", rms_values |-> r] :
                     r \in UNION {[1..m -> RmsGrid] : m \in 0..MaxRms}}
    /\ ret = None

SpecVolume == InitVolume /\ [][CallCalculateVolumeStability]_vars

(***************************************************************************)
(* AIAnalyzer (src/ai_analyzer.py).                                        *)
(*                                                                         *)
(* Python values that json.loads can produce, and the values of a report,  *)
(* are records tagged with their Python type:                              *)
(*   PyNone, PyBool(b), PyNum(x) with x = F(..) or NaN, PyStr(s),          *)
(*   PyList(sequence of values), PyDict(function from keys to values).     *)
(* Each type keeps its payload in a field of its own.                      *)
(* The three scores of a report are numbers in fixed point.                *)
(***************************************************************************)
PyNone == [t |-> "NoneType"]

PyBool(b) == [t |-> "bool", b |-> b]

PyNum(x) == [t |-> "number", num |-> x]

PyStr(s) == [t |-> "str", s |-> s]

PyList(items) == [t |-> "list", items |-> items]

PyDict(fields) == [t |-> "dict", fields |-> fields]

\* d.get(key, default) on a dict d
Get(d, key, default) ==
    IF key \in DOMAIN d.fields THEN d.fields[key] ELSE default

\* the dict holding the given set of << key, value >> pairs
DictOf(pairs) ==
    PyDict([k \in {p[1] : p \in pairs} |-> (CHOOSE p \in pairs : p[1] = k)[2]])

\* lines 107-109: min(10, max(1, x)) raises TypeError unless x is a number
ScoreRaises(x) == x.t \notin {"number", "bool"}

\* a variant that only caps the score: min(10, x)
ValidateScoreCapOnly(x) ==
    IF x.t = "bool" THEN (IF x.b THEN Scale ELSE 0)
    ELSE IF ~x.num.fin THEN 10 * Scale
    ELSE Min(10 * Scale, x.num.v)

\* lines 107-109: min(10, max(1, x)) of a number x.  max(1, True),
\* max(1, False) and max(1, nan) keep their first argument, 1
ValidateScore(x) ==
    IF x.t = "bool" THEN 1 * Scale
    ELSE IF ~x.num.fin THEN 1 * Scale
    ELSE Min(10 * Scale, Max(1 * Scale, x.num.v))

\* result.get("language_proficiency", {}) of lines 107-111
LanguageProficiencyOf(r) == Get(r, "language_proficiency", PyDict(<< >>))

ScoreKeys == {"grammar_score", "vocabulary_score", "fluency_score"}

\* lines 104-116 raise: result or its language_proficiency has no get
\* (AttributeError), or a score is not a number (TypeError)
ValidateRaisesOn(r) ==
    IF r.t # "dict" THEN TRUE
    ELSE IF LanguageProficiencyOf(r).t # "dict" THEN TRUE
    ELSE \E k \in ScoreKeys :
             ScoreRaises(Get(LanguageProficiencyOf(r), k, PyNum(F(7 * Scale))))

\* lines 101-118, when they do not raise
ValidateAndFormatResponse(r) ==
    LET lp == LanguageProficiencyOf(r)
    IN  [ overall_assessment |->
              Get(r, "overall_assessment", PyStr("Speech analysis completed.")),
          language_proficiency |->
              [ grammar_score |->
                    ValidateScore(Get(lp, "grammar_score", PyNum(F(7 * Scale)))),
                vocabulary_score |->
                    ValidateScore(Get(lp, "vocabulary_score", PyNum(F(7 * Scale)))),
                fluency_score |->
                    ValidateScore(Get(lp, "fluency_score", PyNum(F(7 * Scale)))),
                level |-> Get(lp, "level", PyStr("Intermediate")),
                explanation |->
                    Get(lp, "explanation",
                        PyStr("Assessment based on speech analysis.")) ],
          strengths |-> Get(r, "strengths", PyList(<< >>)),
          areas_for_improvement |-> Get(r, "areas_for_improvement", PyList(<< >>)),
          recommendations |-> Get(r, "recommendations", PyList(<< >>)) ]

\* str(n) of an integer n >= 0
DigitChars == << "0", "1", "2", "3", "4", "5", "6", "7", "8", "9" >>

RECURSIVE IntStr(_)
IntStr(n) ==
    IF n < 10 THEN DigitChars[n + 1]
    ELSE IntStr(n \div 10) \o DigitChars[(n % 10) + 1]

\* f"{x:.1f}" of line 177 for x >= 0: one decimal, halves to the even digit
Format1f(x) ==
    LET unit == Scale \div 10
        down == x \div unit
        rest == x % unit
        tenths == IF 2 * rest > unit \/ (2 * rest = unit /\ down % 2 = 1)
                  THEN down + 1 ELSE down
    IN  IntStr(tenths \div 10) \o "." \o DigitChars[(tenths % 10) + 1]

\* a variant that rounds to the nearest integer
PyIntRounding(num, den) ==
    IF 2 * num + den >= 0 THEN (2 * num + den) \div (2 * den)
    ELSE -((-(2 * num + den)) \div (2 * den))

\* int(x) of the float x = num / den, den > 0: truncation towards zero
PyInt(num, den) == IF num >= 0 THEN num \div den ELSE -((-num) \div den)

\* a variant whose slow-pace branch starts below 140
PaceFindingsSlowBelowOptimal(wpm) ==
    IF 140 * Scale <= wpm /\ wpm <= 180 * Scale THEN "optimal"
    ELSE IF wpm < 140 * Scale THEN "slow"
    ELSE IF wpm > 200 * Scale THEN "fast"
    ELSE "none"

\* lines 131-144: the branch taken for the speaking pace
PaceFindings(wpm) ==
    IF 140 * Scale <= wpm /\ wpm <= 180 * Scale THEN "optimal"
    ELSE IF wpm < 120 * Scale THEN "slow"
    ELSE IF wpm > 200 * Scale THEN "fast"
    ELSE "none"

\* lines 147-154: the branch taken for the filler words
FillerFindings(filler_percentage) ==
    IF filler_percentage < 2 * Scale THEN "low"
    ELSE IF filler_percentage > 5 * Scale THEN "high"
    ELSE "none"

\* lines 157-164: the branch taken for the volume
VolumeFindings(stability) ==
    IF stability >= 7 * Scale THEN "steady" ELSE "unsteady"

\* a recommendation dict
Recommendation(title, description) ==
    PyDict([title |-> PyStr(title), description |-> PyStr(description)])

\* line 168: proficiency_score, as the exact fraction
\* ProficiencyNum(..) / ProficiencyDen of fixed-point units
ProficiencyNum(wpm, filler_percentage, stability) ==
    300 * Scale - 15 * filler_percentage + 30 * stability
        + Min(300 * Scale, 2 * wpm)

ProficiencyDen == 3 * 30

\* a variant with strict comparisons
ProficiencyLevelStrict(num) ==
    IF num > 8 * Scale * ProficiencyDen THEN "Advanced"
    ELSE IF num > 6 * Scale * ProficiencyDen THEN "Intermediate"
    ELSE "Beginner"

\* lines 169-174
ProficiencyLevel(num) ==
    IF num >= 8 * Scale * ProficiencyDen THEN "Advanced"
    ELSE IF num >= 6 * Scale * ProficiencyDen THEN "Intermediate"
    ELSE "Beginner"

\* a variant that returns the list as it is
OrGenericNever(xs, generic) == xs

\* lines 185-192: xs if xs else [generic]
OrGeneric(xs, generic) == IF xs # << >> THEN xs ELSE << generic >>

\* a variant whose filler finding comes without a recommendation
TriggeredRecommendationsNoFiller(pace, fillers, volume) ==
    (IF pace = "slow"
     THEN << Recommendation("Increase Speaking Pace",
                "Practice speaking at 140-160 words per minute for optimal clarity and engagement.") >>
     ELSE IF pace = "fast"
     THEN << Recommendation("Moderate Speaking Pace",
                "Slow down to 140-180 words per minute to ensure your audience can follow along easily.") >>
     ELSE << >>)
    \o (IF volume = "unsteady"
        THEN << Recommendation("Improve Volume Consistency",
                   "Practice maintaining steady volume levels. Consider using a metronome for rhythm.") >>
        ELSE << >>)

\* the recommendations.append calls of lines 134-137, 140-143, 150-153 and
\* 160-163
TriggeredRecommendations(pace, fillers, volume) ==
    (IF pace = "slow"
     THEN << Recommendation("Increase Speaking Pace",
                "Practice speaking at 140-160 words per minute for optimal clarity and engagement.") >>
     ELSE IF pace = "fast"
     THEN << Recommendation("Moderate Speaking Pace",
                "Slow down to 140-180 words per minute to ensure your audience can follow along easily.") >>
     ELSE << >>)
    \o (IF fillers = "high"
        THEN << Recommendation("Reduce Filler Words",
                   "Practice pausing instead of using filler words. Record yourself and identify patterns.") >>
        ELSE << >>)
    \o (IF volume = "unsteady"
        THEN << Recommendation("Improve Volume Consistency",
                   "Practice maintaining steady volume levels. Consider using a metronome for rhythm.") >>
        ELSE << >>)

\* lines 120-193
FallbackAnalysis(speech_metrics) ==
    LET wpm == speech_metrics.words_per_minute
        filler_percentage == speech_metrics.filler_percentage
        stability == speech_metrics.volume_stability
        pace == PaceFindings(wpm)
        fillers == FillerFindings(filler_percentage)
        volume == VolumeFindings(stability)
        strengths ==
            (IF pace = "optimal"
             THEN << PyStr("Excellent speaking pace - clear and easy to follow") >>
             ELSE << >>)
            \o (IF fillers = "low"
                THEN << PyStr("Excellent control of filler words") >>
                ELSE << >>)
            \o (IF volume = "steady"
                THEN << PyStr("Good volume control and consistency") >>
                ELSE << >>)
        improvements ==
            (IF pace = "slow"
             THEN << PyStr("Speaking pace is quite slow - consider increasing tempo") >>
             ELSE IF pace = "fast"
             THEN << PyStr("Speaking pace is very fast - consider slowing down") >>
             ELSE << >>)
            \o (IF fillers = "high"
                THEN << PyStr("High usage of filler words detected") >>
                ELSE << >>)
            \o (IF volume = "unsteady"
                THEN << PyStr("Volume inconsistency detected") >>
                ELSE << >>)
        recommendations == TriggeredRecommendations(pace, fillers, volume)
        num == ProficiencyNum(wpm, filler_percentage, stability)
        proficiency == PyInt(num, ProficiencyDen * Scale)
    IN  [ overall_assessment |->
              PyStr("Analysis complete. Speaking pace: " \o Format1f(wpm)
                    \o " WPM, Filler percentage: " \o Format1f(filler_percentage)
                    \o "%, Volume stability: " \o Format1f(stability) \o "/10"),
          language_proficiency |->
              [ grammar_score |-> Min(10, Max(1, proficiency)) * Scale,
                vocabulary_score |-> Min(10, Max(1, proficiency)) * Scale,
                fluency_score |->
                    Min(10, Max(1, PyInt(20 * Scale - filler_percentage,
                                         2 * Scale))) * Scale,
                level |-> PyStr(ProficiencyLevel(num)),
                explanation |->
                    PyStr("Assessment based on speaking metrics analysis") ],
          strengths |->
              PyList(OrGeneric(strengths,
                               PyStr("Speech analysis completed successfully"))),
          areas_for_improvement |->
              PyList(OrGeneric(improvements,
                               PyStr("Continue practicing for improvement"))),
          recommendations |->
              PyList(OrGeneric(recommendations,
                               Recommendation("General Practice",
                                   "Continue practicing speaking to improve overall fluency and confidence."))) ]

(***************************************************************************)
(* analyze_speech_performance (lines 15-48) as a state machine.  The       *)
(* backend's answer is any of: an exception, a message without content, a  *)
(* text that is not JSON, a text holding a JSON value.  A content string   *)
(* is modelled by what json.loads makes of it: JsonText(value), or         *)
(* NotJson for a text json.loads rejects.                                  *)
(***************************************************************************)
\* lines 6-13: no client without an API key
NewClient(api_key) ==
    IF api_key = "" THEN None ELSE Some([api_key |-> api_key])

\* lines 17-18
AnalyzeWithoutClient ==
    /\ ai_pc = "called"
    /\ client.none
    /\ ret' = Some(FallbackAnalysis(args.speech_metrics))
    /\ path' = "fallback"
    /\ ai_pc' = "returned"
    /\ UNCHANGED << pipeline_vars, app_vars, args, client, content, result, requests,
                    failed >>

\* a variant that asks the backend a second time after a failed request
RequestFailsAndRetries ==
    /\ ai_pc = "called"
    /\ ~client.none
    /\ requests < 2
    /\ requests' = requests + 1
    /\ failed' = "request"
    /\ ai_pc' = IF requests = 0 THEN "called" ELSE "except"
    /\ UNCHANGED << pipeline_vars, app_vars, args, ret, client, content, result, path >>

\* lines 22-40, the request raising (authentication, network, timeout, an
\* answer without choices): control passes to the handler of line 46
RequestFails ==
    /\ ai_pc = "called"
    /\ ~client.none
    /\ requests' = requests + 1
    /\ failed' = "request"
    /\ ai_pc' = "except"
    /\ UNCHANGED << pipeline_vars, app_vars, args, ret, client, content, result, path >>

\* what the backend may put under each key of its JSON object: nothing, a
\* well-formed value, or a malformed one.  Each option is a set of pairs.
Field(key, values) == {{}} \cup {{<< key, v >>} : v \in values}

OverallOptions ==
    Field("overall_assessment", {PyStr("Clear and confident delivery."), PyNone})

GrammarOptions ==
    Field("grammar_score",
          {PyNum(F(0)), PyNum(F((15 * Scale) \div 2)), PyNum(F(15 * Scale)),
           PyNum(NaN), PyBool(TRUE), PyStr("8"), PyNone})

VocabularyOptions == Field("vocabulary_score", {PyNum(F(8 * Scale))})

FluencyOptions == {{<< "fluency_score", v >>} :
                      v \in {PyNum(F(-3 * Scale)), PyNum(F(9 * Scale))}}

LevelOptions == Field("level", {PyStr("Advanced"), PyNone})

ProficiencyDicts ==
    {DictOf(g \cup v \cup f \cup l \cup
            {<< "explanation", PyStr("Fluent, with few hesitations.") >>}) :
        g \in GrammarOptions, v \in VocabularyOptions, f \in FluencyOptions,
        l \in LevelOptions}

ProficiencyOptions ==
    Field("language_proficiency", {PyNone} \cup ProficiencyDicts)

StrengthsOptions ==
    Field("strengths", {PyList(<< PyStr("Clear articulation") >>),
                        PyStr("Clear articulation")})

AreasOptions == Field("areas_for_improvement", {PyNone})

RecommendationsOptions ==
    Field("recommendations",
          {PyList(<< >>),
           PyList(<< Recommendation("Pause more", "Replace fillers by pauses.") >>),
           PyList(<< PyDict([title |-> PyStr("Pause more")]) >>),
           PyNone})

\* the JSON objects of the backend
ResponseObjects ==
    {DictOf(o \cup p \cup s \cup a \cup r) :
        o \in OverallOptions, p \in ProficiencyOptions, s \in StrengthsOptions,
        a \in AreasOptions, r \in RecommendationsOptions}

\* JSON values that are not objects
ResponseValues ==
    {PyNone, PyNum(F(7 * Scale)), PyStr("ok"), PyList(<< >>)}

\* a content string json.loads parses to value, and one it rejects
JsonText(value) == [t |-> "str", parsed |-> Some(value)]

NotJson == [t |-> "str", parsed |-> None]

\* message.content of the backend's answer
Contents ==
    {PyNone, NotJson}
        \cup {JsonText(v) : v \in ResponseObjects \cup ResponseValues}

\* lines 22-40, the request answered
RequestResponds ==
    /\ ai_pc = "called"
    /\ ~client.none
    /\ requests' = requests + 1
    /\ content' \in Contents
    /\ ai_pc' = "responded"
    /\ UNCHANGED << pipeline_vars, app_vars, args, ret, client, result, failed, path >>

\* lines 41-42
ContentIsNone ==
    /\ ai_pc = "responded"
    /\ content.t = "NoneType"
    /\ ret' = Some(FallbackAnalysis(args.speech_metrics))
    /\ failed' = "content"
    /\ path' = "fallback"
    /\ ai_pc' = "returned"
    /\ UNCHANGED << pipeline_vars, app_vars, args, client, content, result, requests >>

\* line 43, json.loads raising
ParseFails ==
    /\ ai_pc = "responded"
    /\ content.t = "str"
    /\ content.parsed.none
    /\ failed' = "json"
    /\ ai_pc' = "except"
    /\ UNCHANGED << pipeline_vars, app_vars, args, ret, client, content, result,
                    requests, path >>

\* line 43
Parse ==
    /\ ai_pc = "responded"
    /\ content.t = "str"
    /\ ~content.parsed.none
    /\ result' = content.parsed.value
    /\ ai_pc' = "parsed"
    /\ UNCHANGED << pipeline_vars, app_vars, args, ret, client, content, requests,
                    failed, path >>

\* a variant in which the validation is called outside the try block
ValidateFailsUncaught ==
    /\ ai_pc = "parsed"
    /\ ValidateRaisesOn(result)
    /\ failed' = "validate"
    /\ ai_pc' = "raised"
    /\ UNCHANGED << pipeline_vars, app_vars, args, ret, client, content, result,
                    requests, path >>

\* line 44, _validate_and_format_response raising
ValidateFails ==
    /\ ai_pc = "parsed"
    /\ ValidateRaisesOn(result)
    /\ failed' = "validate"
    /\ ai_pc' = "except"
    /\ UNCHANGED << pipeline_vars, app_vars, args, ret, client, content, result,
                    requests, path >>

\* line 44
ValidateReturns ==
    /\ ai_pc = "parsed"
    /\ ~ValidateRaisesOn(result)
    /\ ret' = Some(ValidateAndFormatResponse(result))
    /\ path' = "external"
    /\ ai_pc' = "returned"
    /\ UNCHANGED << pipeline_vars, app_vars, args, client, content, result, requests,
                    failed >>

\* lines 46-48
ExceptFallback ==
    /\ ai_pc = "except"
    /\ ret' = Some(FallbackAnalysis(args.speech_metrics))
    /\ path' = "fallback"
    /\ ai_pc' = "returned"
    /\ UNCHANGED << pipeline_vars, app_vars, args, client, content, result, requests,
                    failed >>

\* the three metrics the fallback reads
SpeechMetrics(wpm, filler_percentage, stability) ==
    [ words_per_minute |-> wpm, filler_percentage |-> filler_percentage,
      volume_stability |-> stability ]

\* filler percentages, with those at and next to the thresholds 2 and 5
FallbackFillerGrid ==
    FillerGrid \cup {2 * Scale - 1, 2 * Scale, 3 * Scale, 5 * Scale + 1}

\* volume stabilities, with the one just under the threshold 7
FallbackStabilityGrid == StabilityGrid \cup {7 * Scale - 1}

\* metrics of a call without a client
FallbackMetrics ==
    {SpeechMetrics(w, f, v) :
        w \in WpmGrid, f \in FallbackFillerGrid, v \in FallbackStabilityGrid}

\* metrics of a call with a client: slow or optimal pace, unsteady or
\* steady volume
BackendMetrics ==
    {SpeechMetrics(w, 0, v) :
        w \in {0, 150 * Scale}, v \in {5 * Scale, 8 * Scale}}

ApiKeys == {"", "sk-test"}

InitAI ==
    /\ NotCalled
    /\ AppNotCalled
    /\ \E api_key \in ApiKeys : client = NewClient(api_key)
    /\ args \in {[fn |-> "analyze_speech_performance", speech_metrics |-> m] :
                    m \in IF client.none THEN FallbackMetrics ELSE BackendMetrics}
    /\ ret = None
    /\ ai_pc = "called"
    /\ content = None
    /\ result = None
    /\ requests = 0
    /\ failed = ""
    /\ path = ""

NextAI ==
    \/ AnalyzeWithoutClient
    \/ RequestFails
    \/ RequestResponds
    \/ ContentIsNone
    \/ ParseFails
    \/ Parse
    \/ ValidateFails
    \/ ValidateReturns
    \/ ExceptFallback

SpecAI == InitAI /\ [][NextAI]_vars

(***************************************************************************)
(* speech_analysis_page (src/app.py): the handler of the Analyze Speech    *)
(* button, lines 44-125.  The variable page holds its position and locals: *)
(*   pc, manual_transcript, transcript, temp_file_path,                    *)
(*   exists   whether the temporary file is on disk,                       *)
(*   branch   the branch of lines 74-83 that was taken (0: none of them),  *)
(*   calls    the analysis calls made so far, as << method, transcript >>, *)
(*   error    the message of the exception caught at line 108, or "".      *)
(* The calls into AudioProcessor, SpeechAnalyzer and AIAnalyzer are steps  *)
(* that return or raise.  Writing and deleting the temporary file do not   *)
(* fail.                                                                   *)
(***************************************************************************)
RECURSIVE LStrip(_)
LStrip(chars) ==
    IF chars # << >> /\ IsSpace(Head(chars)) THEN LStrip(Tail(chars)) ELSE chars

RECURSIVE RStrip(_)
RStrip(chars) ==
    IF chars # << >> /\ IsSpace(chars[Len(chars)])
    THEN RStrip(SubSeq(chars, 1, Len(chars) - 1))
    ELSE chars

\* str.strip()
Strip(chars) == RStrip(LStrip(chars))

\* a variant without the early return of lines 77-80
TranscriptBranchNoReturn(auto, manual) ==
    IF Strip(auto) = << >> /\ Strip(manual) # << >> THEN 1
    ELSE IF Strip(auto) = << >> THEN 3
    ELSE 0

\* lines 74, 77 and 81: the branch of the if / elif / elif chain taken
TranscriptBranch(auto, manual) ==
    IF Strip(auto) = << >> /\ Strip(manual) # << >> THEN 1
    ELSE IF Strip(auto) = << >> /\ Strip(manual) = << >> THEN 2
    ELSE IF Strip(auto) = << >> THEN 3
    ELSE 0

\* lines 45-50: the upload is written to a temporary file
SaveUpload ==
    /\ page.pc = "clicked"
    /\ page' = [page EXCEPT !.pc = "saved",
                            !.temp_file_path = Some("upload.mp3"),
                            !.exists = TRUE]
    /\ UNCHANGED << pipeline_vars, ai_vars, args, ret, loader, transcriber >>

\* line 65, load_audio returning
PageLoadAudio ==
    /\ page.pc = "saved"
    /\ page' = [page EXCEPT !.pc = "loaded"]
    /\ UNCHANGED << pipeline_vars, ai_vars, args, ret, loader, transcriber >>

\* line 65, load_audio raising
PageLoadAudioRaises ==
    /\ page.pc = "saved"
    /\ page' = [page EXCEPT !.pc = "except",
                            !.error = "Failed to load audio file"]
    /\ UNCHANGED << pipeline_vars, ai_vars, args, ret, loader, transcriber >>

\* what transcribe_audio may return to the page
AutoTranscripts ==
    {<< >>, << " " >>, << "u", "m" >>, << " ", "s", "o", " " >>}

\* what the user may have typed into the text area
ManualTranscripts ==
    {<< >>, << " ", "\n" >>, << "u", "m" >>, << " ", "u", "h", " " >>}

\* line 71, transcribe_audio returning
PageTranscribe ==
    /\ page.pc = "loaded"
    /\ \E t \in AutoTranscripts :
           page' = [page EXCEPT !.pc = "transcribed", !.transcript = t]
    /\ UNCHANGED << pipeline_vars, ai_vars, args, ret, loader, transcriber >>

\* line 71, transcribe_audio raising
PageTranscribeRaises ==
    /\ page.pc = "loaded"
    /\ page' = [page EXCEPT !.pc = "except", !.error = "Transcription failed"]
    /\ UNCHANGED << pipeline_vars, ai_vars, args, ret, loader, transcriber >>

\* lines 74-83
SelectTranscript ==
    /\ page.pc = "transcribed"
    /\ LET branch == TranscriptBranch(page.transcript, page.manual_transcript)
       IN  page' = [page EXCEPT
               !.branch = branch,
               !.transcript = IF branch \in {1, 3}
                              THEN Strip(page.manual_transcript) ELSE @,
               !.pc = IF branch = 2 THEN "done" ELSE "selected"]
    /\ UNCHANGED << pipeline_vars, ai_vars, args, ret, loader, transcriber >>

\* line 89, analyze_speech returning
PageAnalyzeSpeech ==
    /\ page.pc = "selected"
    /\ page' = [page EXCEPT
           !.pc = "analyzed",
           !.calls = Append(@, << "analyze_speech", page.transcript >>)]
    /\ UNCHANGED << pipeline_vars, ai_vars, args, ret, loader, transcriber >>

\* line 89, analyze_speech raising
PageAnalyzeSpeechRaises ==
    /\ page.pc = "selected"
    /\ page' = [page EXCEPT
           !.pc = "except",
           !.error = "Speech analysis failed",
           !.calls = Append(@, << "analyze_speech", page.transcript >>)]
    /\ UNCHANGED << pipeline_vars, ai_vars, args, ret, loader, transcriber >>

\* line 95: analyze_speech_performance returns a report
PageInsights ==
    /\ page.pc = "analyzed"
    /\ page' = [page EXCEPT
           !.pc = "insights",
           !.calls = Append(@, << "analyze_speech_performance",
                                  page.transcript >>)]
    /\ UNCHANGED << pipeline_vars, ai_vars, args, ret, loader, transcriber >>

\* line 102
PageUnlink ==
    /\ page.pc = "insights"
    /\ page' = [page EXCEPT !.pc = "unlinked", !.exists = FALSE]
    /\ UNCHANGED << pipeline_vars, ai_vars, args, ret, loader, transcriber >>

\* lines 105-106, display_results returning
PageDisplay ==
    /\ page.pc = "unlinked"
    /\ page' = [page EXCEPT !.pc = "done"]
    /\ UNCHANGED << pipeline_vars, ai_vars, args, ret, loader, transcriber >>

\* lines 105-106, display_results raising on the report it is given
PageDisplayRaises ==
    /\ page.pc = "unlinked"
    /\ page' = [page EXCEPT !.pc = "except", !.error = "display failed"]
    /\ UNCHANGED << pipeline_vars, ai_vars, args, ret, loader, transcriber >>

\* lines 108-125: the message is shown and the temporary file removed if
\* its path is set and it still exists
PageExcept ==
    /\ page.pc = "except"
    /\ page' = [page EXCEPT
           !.pc = "done",
           !.exists = IF ~page.temp_file_path.none /\ page.exists
                      THEN FALSE ELSE @]
    /\ UNCHANGED << pipeline_vars, ai_vars, args, ret, loader, transcriber >>

InitApp ==
    /\ NotCalled
    /\ AINotCalled
    /\ args = None
    /\ ret = None
    /\ loader = None
    /\ transcriber = None
    /\ \E m \in ManualTranscripts :
           page = [ pc |-> "clicked", manual_transcript |-> m,
                    transcript |-> << >>, temp_file_path |-> None,
                    exists |-> FALSE, branch |-> 0, calls |-> << >>,
                    error |-> "" ]

NextApp ==
    \/ SaveUpload
    \/ PageLoadAudio
    \/ PageLoadAudioRaises
    \/ PageTranscribe
    \/ PageTranscribeRaises
    \/ SelectTranscript
    \/ PageAnalyzeSpeech
    \/ PageAnalyzeSpeechRaises
    \/ PageInsights
    \/ PageUnlink
    \/ PageDisplay
    \/ PageDisplayRaises
    \/ PageExcept

SpecApp == InitApp /\ [][NextApp]_vars

(***************************************************************************)
(* AudioProcessor.load_audio (src/audio_processor.py, lines 13-66).  The   *)
(* variable loader holds                                                   *)
(*   pc, file   the file being loaded: whether scipy reads it as WAV, the  *)
(*              pydub format hints that decode it, its samples and rate,   *)
(*   tried      the loaders attempted so far, in order,                    *)
(*   errors     the list errors of _load_audio_with_fallback,              *)
(*   result     None or Some(<< audio_data, sample_rate >>),               *)
(*   error      the message of the exception raised, as its fragments.     *)
(***************************************************************************)
\* a variant that tries pydub's auto-detection first
LoadersAutoFirst ==
    << "pydub_auto", "scipy_wav", "conversion_fallback", "pydub_mp3",
       "pydub_wav", "pydub_flv", "pydub_mp4", "pydub_m4a", "pydub_ogg" >>

\* lines 32-62: the loaders in the order of the try blocks and of formats
Loaders ==
    << "scipy_wav", "conversion_fallback", "pydub_mp3", "pydub_auto",
       "pydub_wav", "pydub_flv", "pydub_mp4", "pydub_m4a", "pydub_ogg" >>

\* lines 36, 42, 48, 54, 62: the prefix of the entry appended to errors
LoaderErrors ==
    [ scipy_wav |-> "WAV loading with scipy failed: ",
      conversion_fallback |-> "Conversion fallback failed: ",
      pydub_mp3 |-> "MP3 loading failed: ",
      pydub_auto |-> "Auto-detection failed: ",
      pydub_wav |-> "WAV loading failed: ",
      pydub_flv |-> "FLV loading failed: ",
      pydub_mp4 |-> "MP4 loading failed: ",
      pydub_m4a |-> "M4A loading failed: ",
      pydub_ogg |-> "OGG loading failed: " ]

\* lines 68-132: _load_with_scipy_wav and _load_with_conversion_fallback
\* both read the file with scipy; the others decode it with pydub under a
\* format hint
Decodes(file, name) ==
    IF name \in {"scipy_wav", "conversion_fallback"} THEN file.wav
    ELSE name \in file.pydub

\* lines 33-62, a loader returning: _load_audio_with_fallback returns
LoaderSucceeds ==
    /\ ~loader.none
    /\ loader.pc = "loading"
    /\ Len(loader.tried) < Len(Loaders)
    /\ LET name == Loaders[Len(loader.tried) + 1]
       IN  /\ Decodes(loader.file, name)
           /\ loader' = [loader EXCEPT
                  !.tried = Append(@, name),
                  !.result = Some(<< loader.file.samples,
                                     loader.file.sample_rate >>),
                  !.pc = "loaded"]
    /\ UNCHANGED << pipeline_vars, ai_vars, args, ret, transcriber, page >>

\* lines 33-62, a loader raising: its error is noted and the next one tried
LoaderFails ==
    /\ ~loader.none
    /\ loader.pc = "loading"
    /\ Len(loader.tried) < Len(Loaders)
    /\ LET name == Loaders[Len(loader.tried) + 1]
       IN  /\ ~Decodes(loader.file, name)
           /\ loader' = [loader EXCEPT
                  !.tried = Append(@, name),
                  !.errors = Append(@, LoaderErrors[name])]
    /\ UNCHANGED << pipeline_vars, ai_vars, args, ret, transcriber, page >>

\* lines 65-66 and 25-26: every loader failed
AllLoadersFailed ==
    /\ ~loader.none
    /\ loader.pc = "loading"
    /\ Len(loader.tried) = Len(Loaders)
    /\ loader' = [loader EXCEPT
           !.pc = "raised",
           !.error = << "Failed to load audio file: ",
                        "All audio loading methods failed: " >> \o loader.errors]
    /\ UNCHANGED << pipeline_vars, ai_vars, args, ret, transcriber, page >>

\* lines 20-21 and 25-26: no samples
LoadAudioRejectsEmpty ==
    /\ ~loader.none
    /\ loader.pc = "loaded"
    /\ NumSamples(loader.result.value[1]) = 0
    /\ loader' = [loader EXCEPT
           !.pc = "raised",
           !.result = None,
           !.error = << "Failed to load audio file: ",
                        "Audio file appears to be empty or corrupted" >>]
    /\ UNCHANGED << pipeline_vars, ai_vars, args, ret, transcriber, page >>

\* line 23
LoadAudioReturns ==
    /\ ~loader.none
    /\ loader.pc = "loaded"
    /\ NumSamples(loader.result.value[1]) # 0
    /\ loader' = [loader EXCEPT !.pc = "returned"]
    /\ UNCHANGED << pipeline_vars, ai_vars, args, ret, transcriber, page >>

\* the format hints handed to pydub, "auto" standing for no hint
PydubHints == {"pydub_mp3", "pydub_auto", "pydub_wav", "pydub_flv",
               "pydub_mp4", "pydub_m4a", "pydub_ogg"}

\* what a file decodes to: nothing, or a short waveform
LoadSamples == {<< >>, TwoRuns(hop_length, 0, F(0), F(Scale \div 2))}

\* the files: readable by scipy as WAV or not, decodable by pydub under some
\* of the hints
AudioFiles ==
    [wav : BOOLEAN, pydub : SUBSET PydubHints, samples : LoadSamples,
     sample_rate : {16000}]

InitLoad ==
    /\ NotCalled
    /\ AINotCalled
    /\ args = None
    /\ ret = None
    /\ transcriber = None
    /\ page = None
    /\ \E f \in AudioFiles :
           loader = [ none |-> FALSE, pc |-> "loading", file |-> f,
                      tried |-> << >>, errors |-> << >>, result |-> None,
                      error |-> << >> ]

NextLoad ==
    \/ LoaderSucceeds
    \/ LoaderFails
    \/ AllLoadersFailed
    \/ LoadAudioRejectsEmpty
    \/ LoadAudioReturns

SpecLoad == InitLoad /\ [][NextLoad]_vars

(***************************************************************************)
(* AudioProcessor.extract_audio_features (src/audio_processor.py, lines    *)
(* 274-323), next to SpeechAnalyzer._extract_audio_features.  Both are     *)
(* called on the same waveform, sample rate and spectrum; an outcome is    *)
(* the dict returned or the message of the exception raised.               *)
(***************************************************************************)
Returned(value) == [raised |-> FALSE, value |-> value]

Raised(message) == [raised |-> TRUE, error |-> message]

\* a variant whose frame loops include the frame ending at the last sample
ProcessorFeaturesInclusive(runs, sr, sc) ==
    LET starts == PyRange(0, NumSamples(runs) - frame_length + 1, hop_length)
        rms_values == [k \in 1..Len(starts) |->
                          FrameRms(Slice(runs, starts[k], starts[k] + frame_length))]
        rms_db == [k \in 1..Len(rms_values) |-> RmsToDb(rms_values[k])]
        zcr_values == [k \in 1..Len(starts) |->
                          F(FrameZcr(Slice(runs, starts[k], starts[k] + frame_length)))]
    IN  [ duration |-> (NumSamples(runs) * Scale) \div sr,
          rms_values |-> rms_values,
          avg_rms |-> NpMean(rms_values),
          rms_variance |-> NpVar(rms_values),
          avg_volume_db |-> NpMean(rms_db),
          volume_variance |-> NpVar(rms_db),
          spectral_centroid |-> sc,
          zero_crossing_rate |-> NpMean(zcr_values),
          tempo |-> 120 ]

\* lines 277-319: the dict features, the spectral centroid being sc; the
\* function sets frame_length = 2048 and hop_length = 512 at lines 283-284
ProcessorFeatures(runs, sr, sc) ==
    LET starts == PyRange(0, NumSamples(runs) - frame_length, hop_length)
        rms_values == [k \in 1..Len(starts) |->
                          FrameRms(Slice(runs, starts[k], starts[k] + frame_length))]
        rms_db == [k \in 1..Len(rms_values) |-> RmsToDb(rms_values[k])]
        zcr_values == [k \in 1..Len(starts) |->
                          F(FrameZcr(Slice(runs, starts[k], starts[k] + frame_length)))]
    IN  [ duration |-> (NumSamples(runs) * Scale) \div sr,
          rms_values |-> rms_values,
          avg_rms |-> NpMean(rms_values),
          rms_variance |-> NpVar(rms_values),
          avg_volume_db |-> NpMean(rms_db),
          volume_variance |-> NpVar(rms_db),
          spectral_centroid |-> sc,
          zero_crossing_rate |-> NpMean(zcr_values),
          tempo |-> 120 ]

\* lines 276-323: the only exception of the body is the ZeroDivisionError
\* of line 280, which the except clause wraps
ProcessorExtractAudioFeatures(runs, sr, sc) ==
    IF sr = 0
    THEN Raised(<< "Feature extraction failed: ", "division by zero" >>)
    ELSE Returned(ProcessorFeatures(runs, sr, sc))

\* SpeechAnalyzer._extract_audio_features called on its own: the
\* ZeroDivisionError of line 68 leaves it as it is
AnalyzerExtractAudioFeatures(runs, sr, sc) ==
    IF ExtractRaises(runs, sr)
    THEN Raised(<< "division by zero" >>)
    ELSE Returned(ExtractAudioFeatures(runs, sr, sc))

CallProcessorExtract ==
    /\ args.fn = "extract_audio_features"
    /\ ret.processor = None
    /\ ret' = [ret EXCEPT !.processor =
                  Some(ProcessorExtractAudioFeatures(
                           args.audio_data, args.sample_rate, args.centroid))]
    /\ UNCHANGED << pipeline_vars, ai_vars, app_vars, args >>

CallAnalyzerExtract ==
    /\ args.fn = "extract_audio_features"
    /\ ret.analyzer = None
    /\ ret' = [ret EXCEPT !.analyzer =
                  Some(AnalyzerExtractAudioFeatures(
                           args.audio_data, args.sample_rate, args.centroid))]
    /\ UNCHANGED << pipeline_vars, ai_vars, app_vars, args >>

\* every waveform at every sample rate, with each centroid welch can give
InitFeatures ==
    /\ NotCalled
    /\ AINotCalled
    /\ AppNotCalled
    /\ \E w \in Waveforms, sr \in SampleRates :
           \E sc \in WelchCentroid(w, sr) :
               args = [ fn |-> "extract_audio_features",
                        audio_data |-> w, sample_rate |-> sr, centroid |-> sc ]
    /\ ret = [processor |-> None, analyzer |-> None]

NextFeatures ==
    \/ CallProcessorExtract
    \/ CallAnalyzerExtract

SpecFeatures == InitFeatures /\ [][NextFeatures]_vars

(***************************************************************************)
(* AudioProcessor.transcribe_audio and _recognize_speech_with_fallback     *)
(* (src/audio_processor.py, lines 161-191 and 251-272).  The variable      *)
(* transcriber holds                                                       *)
(*   pc                                                                    *)
(*   convertible  whether _convert_for_speech_recognition can convert the  *)
(*                file, readable whether sr.AudioFile can then read it,    *)
(*   first, second  what recognize_google does at each of the two calls:   *)
(*                raise UnknownValueError or RequestError, or return text, *)
(*   wav_path, exists  the local wav_path and whether that file exists,    *)
(*   tried        the recognition calls made, errors the list errors,      *)
(*   exception    the exception in flight inside the try block,            *)
(*   result, error  the value returned or the message raised.              *)
(* Creating, writing and unlinking the temporary file do not fail.         *)
(***************************************************************************)
Recognized(text) == [kind |-> "text", text |-> text]

Throws(kind) == [kind |-> kind, text |-> << >>]

\* lines 256-260 and 265-269: the try block of an attempt returns the
\* transcript when it has a non-blank character
AttemptReturns(outcome) ==
    outcome.kind = "text" /\ Strip(outcome.text) # << >>

\* lines 167-168 with 193-249: a WAV file is written and its path kept
ConvertForSpeechRecognition ==
    /\ ~transcriber.none
    /\ transcriber.pc = "called"
    /\ transcriber.convertible
    /\ transcriber' = [transcriber EXCEPT
           !.pc = "converted", !.wav_path = Some("tmp.wav"), !.exists = TRUE]
    /\ UNCHANGED << pipeline_vars, ai_vars, args, ret, loader, page >>

\* lines 167-168 with 237-239: no method could convert the file
ConvertForSpeechRecognitionRaises ==
    /\ ~transcriber.none
    /\ transcriber.pc = "called"
    /\ ~transcriber.convertible
    /\ transcriber' = [transcriber EXCEPT
           !.pc = "except",
           !.exception = [kind |-> "Exception",
                          message |-> "All audio conversion methods failed: "]]
    /\ UNCHANGED << pipeline_vars, ai_vars, args, ret, loader, page >>

\* lines 171-174
RecordAudio ==
    /\ ~transcriber.none
    /\ transcriber.pc = "converted"
    /\ transcriber.readable
    /\ transcriber' = [transcriber EXCEPT !.pc = "recorded"]
    /\ UNCHANGED << pipeline_vars, ai_vars, args, ret, loader, page >>

\* lines 171-174: sr.AudioFile cannot read the file
RecordAudioRaises ==
    /\ ~transcriber.none
    /\ transcriber.pc = "converted"
    /\ ~transcriber.readable
    /\ transcriber' = [transcriber EXCEPT
           !.pc = "except",
           !.exception = [kind |-> "ValueError",
                          message |-> "Audio file could not be read"]]
    /\ UNCHANGED << pipeline_vars, ai_vars, args, ret, loader, page >>

\* lines 256-259 and 177
FirstAttemptReturns ==
    /\ ~transcriber.none
    /\ transcriber.pc = "recorded"
    /\ AttemptReturns(transcriber.first)
    /\ transcriber' = [transcriber EXCEPT
           !.tried = Append(@, "google"),
           !.result = Some(transcriber.first.text),
           !.pc = "finally"]
    /\ UNCHANGED << pipeline_vars, ai_vars, args, ret, loader, page >>

\* a variant without the except clause of lines 260-261
FirstAttemptFailsUncaught ==
    /\ ~transcriber.none
    /\ transcriber.pc = "recorded"
    /\ ~AttemptReturns(transcriber.first)
    /\ transcriber' = [transcriber EXCEPT
           !.tried = Append(@, "google"),
           !.exception = IF transcriber.first.kind = "text" THEN @
                         ELSE [kind |-> transcriber.first.kind,
                               message |-> "recognition failed"],
           !.pc = IF transcriber.first.kind = "text" THEN "second"
                  ELSE "except"]
    /\ UNCHANGED << pipeline_vars, ai_vars, args, ret, loader, page >>

\* lines 256-261: the transcript is blank, or the call raised and the
\* exception is noted in errors
FirstAttemptFails ==
    /\ ~transcriber.none
    /\ transcriber.pc = "recorded"
    /\ ~AttemptReturns(transcriber.first)
    /\ transcriber' = [transcriber EXCEPT
           !.tried = Append(@, "google"),
           !.errors = IF transcriber.first.kind = "text" THEN @
                      ELSE Append(@, "Google recognition failed: "),
           !.pc = "second"]
    /\ UNCHANGED << pipeline_vars, ai_vars, args, ret, loader, page >>

\* lines 265-268 and 177
SecondAttemptReturns ==
    /\ ~transcriber.none
    /\ transcriber.pc = "second"
    /\ AttemptReturns(transcriber.second)
    /\ transcriber' = [transcriber EXCEPT
           !.tried = Append(@, "google_en_US"),
           !.result = Some(transcriber.second.text),
           !.pc = "finally"]
    /\ UNCHANGED << pipeline_vars, ai_vars, args, ret, loader, page >>

\* lines 265-272 and 177: no transcript was obtained
SecondAttemptFails ==
    /\ ~transcriber.none
    /\ transcriber.pc = "second"
    /\ ~AttemptReturns(transcriber.second)
    /\ transcriber' = [transcriber EXCEPT
           !.tried = Append(@, "google_en_US"),
           !.errors = IF transcriber.second.kind = "text" THEN @
                      ELSE Append(@, "Google (en-US) recognition failed: "),
           !.result = Some(<< >>),
           !.pc = "finally"]
    /\ UNCHANGED << pipeline_vars, ai_vars, args, ret, loader, page >>

\* lines 179-184: the except clauses of transcribe_audio
TranscribeExcept ==
    /\ ~transcriber.none
    /\ transcriber.pc = "except"
    /\ transcriber' = [transcriber EXCEPT
           !.result = IF transcriber.exception.kind = "UnknownValueError"
                      THEN Some(<< >>) ELSE @,
           !.error = IF transcriber.exception.kind = "UnknownValueError"
                     THEN @
                     ELSE IF transcriber.exception.kind = "RequestError"
                     THEN << "Speech recognition service error: ",
                             transcriber.exception.message >>
                     ELSE << "Transcription failed: ",
                             transcriber.exception.message >>,
           !.pc = "finally"]
    /\ UNCHANGED << pipeline_vars, ai_vars, args, ret, loader, page >>

\* lines 185-191
TranscribeFinally ==
    /\ ~transcriber.none
    /\ transcriber.pc = "finally"
    /\ transcriber' = [transcriber EXCEPT
           !.exists = IF ~transcriber.wav_path.none /\ transcriber.exists
                      THEN FALSE ELSE @,
           !.pc = IF transcriber.result.none THEN "raised" ELSE "returned"]
    /\ UNCHANGED << pipeline_vars, ai_vars, args, ret, loader, page >>

\* what recognize_google can do at a call
RecognitionOutcomes ==
    {Throws("UnknownValueError"), Throws("RequestError"),
     Recognized(<< >>), Recognized(<< " " >>),
     Recognized(<< "u", "m" >>), Recognized(<< " ", "s", "o" >>)}

InitTranscribe ==
    /\ NotCalled
    /\ AINotCalled
    /\ args = None
    /\ ret = None
    /\ loader = None
    /\ page = None
    /\ \E c \in BOOLEAN, r \in BOOLEAN :
       \E o1 \in RecognitionOutcomes, o2 \in RecognitionOutcomes :
           transcriber = [ none |-> FALSE, pc |-> "called",
                           convertible |-> c, readable |-> r,
                           first |-> o1, second |-> o2,
                           wav_path |-> None, exists |-> FALSE,
                           tried |-> << >>, errors |-> << >>,
                           exception |-> [kind |-> "", message |-> ""],
                           result |-> None, error |-> << >> ]

NextTranscribe ==
    \/ ConvertForSpeechRecognition
    \/ ConvertForSpeechRecognitionRaises
    \/ RecordAudio
    \/ RecordAudioRaises
    \/ FirstAttemptReturns
    \/ FirstAttemptFails
    \/ SecondAttemptReturns
    \/ SecondAttemptFails
    \/ TranscribeExcept
    \/ TranscribeFinally

SpecTranscribe == InitTranscribe /\ [][NextTranscribe]_vars

(***************************************************************************)
(* Claims.                                                                 *)
(***************************************************************************)
\* the start offsets 0, hop, 2 hop, ... with start + frame_length <= n
ClaimedStarts(n) ==
    {k * hop_length : k \in {j \in 0..(n \div hop_length) : j * hop_length + frame_length <= n}}

Silence(n) == << [val |-> F(0), n |-> n] >>

\* every sample is a finite number
AllFinite(runs) == \A k \in 1..Len(runs) : runs[k].val.fin

\* C1: the feature extractor produces one frame (one RMS value) for exactly
\* each start offset 0, 512, 1024, ... with start + 2048 <= len(samples): a
\* waveform of 2048 samples yields one frame, one of 4096 samples five.
C1_OneFramePerOffset ==
    (audio_features # None /\ AllFinite(audio_data)) =>
        /\ Len(audio_features.rms_values) =
               Cardinality(ClaimedStarts(NumSamples(audio_data)))
        /\ NumSamples(audio_data) = 2048 => Len(audio_features.rms_values) = 1
        /\ NumSamples(audio_data) = 4096 => Len(audio_features.rms_values) = 5

C3_ShortWaveformAggregatesDefined ==
    (audio_features # None
        /\ AllFinite(audio_data)
        /\ NumSamples(audio_data) > 0
        /\ NumSamples(audio_data) < frame_length) =>
        /\ Len(audio_features.rms_values) = 0
        /\ audio_features.avg_volume_db.fin
        /\ audio_features.volume_variance.fin
        /\ audio_features.zero_crossing_rate.fin

\* C4: for every transcript 0 <= filler_percentage <= 100, that is
\* filler_count <= word_count with single- and multi-word fillers counted
\* together, and filler_percentage = 0 whenever word_count = 0, also for a
\* transcript that is not blank but holds no word.
C4_FillerPercentageBounded ==
    (args.fn = "_analyze_text" /\ ret # None) =>
        /\ ret.value.filler_percentage >= 0
        /\ ret.value.filler_percentage <= 100 * Scale
        /\ ret.value.filler_count <= ret.value.word_count
        /\ ret.value.word_count = 0 => ret.value.filler_percentage = 0

C4_Witness ==
    /\ args.fn = "_analyze_text"
    /\ ret # None
    /\ ~IsBlank(args.transcript)
    /\ ret.value.word_count = 0
    /\ ret.value.filler_percentage = 0

\* the dictionary of section 4.2 of the specification
ClaimedSingleFillers ==
    {"um", "uh", "er", "ah", "like", "actually", "basically", "literally",
     "so", "well", "okay", "right", "obviously", "clearly", "honestly"}

ClaimedMultiFillers == {"you know", "i mean", "sort of", "kind of", "you see"}

\* the word tokens of chars, each as << first, last >>
WordSpans(chars) ==
    {sp \in (1..Len(chars)) \X (1..Len(chars)) :
        /\ sp[1] <= sp[2]
        /\ \A k \in sp[1]..sp[2] : IsWordChar(chars[k])
        /\ sp[1] = 1 \/ ~IsWordChar(chars[sp[1] - 1])
        /\ sp[2] = Len(chars) \/ ~IsWordChar(chars[sp[2] + 1])}

\* the positions at which phrase occurs in chars between word boundaries
Occurrences(chars, phrase) ==
    {p \in 1..Len(chars) :
        LET q == p + Len(phrase) - 1
        IN  /\ q <= Len(chars)
            /\ JoinChars(chars, p, q) = phrase
            /\ p = 1 \/ ~IsWordChar(chars[p - 1])
            /\ q = Len(chars) \/ ~IsWordChar(chars[q + 1])}

SingleTokens(chars) ==
    {sp \in WordSpans(chars) : JoinChars(chars, sp[1], sp[2]) \in ClaimedSingleFillers}

\* the word tokens inside an occurrence of a multi-word filler
MultiTokens(chars) ==
    {sp \in WordSpans(chars) :
        \E phrase \in ClaimedMultiFillers : \E p \in Occurrences(chars, phrase) :
            p <= sp[1] /\ sp[2] <= p + Len(phrase) - 1}

RECURSIVE OccurrencesOfAll(_, _)
\* the occurrences of the phrases of todo, summed
OccurrencesOfAll(chars, todo) ==
    IF todo = {} THEN 0
    ELSE LET x == CHOOSE y \in todo : TRUE
         IN  Cardinality(Occurrences(chars, x)) + OccurrencesOfAll(chars, todo \ {x})

\* C5: filler_count is the number of word tokens that are single-word
\* fillers plus, for each multi-word filler, the number of its word-boundary
\* occurrences in the lower-cased transcript, no token being counted both
\* ways; the scenario sentence has 13 words and 6 fillers.
C5_FillerCount ==
    (args.fn = "_analyze_text" /\ ret # None) =>
        LET low == Lower(args.transcript)
        IN  /\ ret.value.word_count = Cardinality(WordSpans(low))
            /\ ret.value.filler_count =
                   Cardinality(SingleTokens(low))
                       + OccurrencesOfAll(low, ClaimedMultiFillers)
            /\ SingleTokens(low) \cap MultiTokens(low) = {}
            /\ args.transcript = Scenario =>
                   (ret.value.word_count = 13 /\ ret.value.filler_count = 6)

C5_Witness ==
    /\ args.fn = "_analyze_text"
    /\ ret # None
    /\ args.transcript = Scenario
    /\ ret.value.word_count = 13
    /\ ret.value.filler_count = 6

\* C6: for wpm >= 0, filler_percentage in [0, 100] and volume_stability in
\* [1, 10], _calculate_confidence_score returns c with 1 <= c <= 10.
C6_ConfidenceInRange ==
    (args.fn = "_calculate_confidence_score" /\ ret # None) =>
        (ret.value >= 1 * Scale /\ ret.value <= 10 * Scale)

\* both ends of the range are returned, and a value strictly inside it
C6_Witness ==
    /\ args.fn = "_calculate_confidence_score"
    /\ ret # None
    /\ args.wpm = 0
    /\ args.filler_percentage = 100 * Scale
    /\ args.volume_stability = 1 * Scale
    /\ ret.value = 1 * Scale

\* pace is (120 - wpm)/20 below 120 wpm, (wpm - 200)/30 above 200, else 0
ClaimedPace(wpm) ==
    IF wpm < 120 * Scale THEN (120 * Scale - wpm) \div 20
    ELSE IF wpm > 200 * Scale THEN (wpm - 200 * Scale) \div 30
    ELSE 0

Clamp(x, lo, hi) == IF x < lo THEN lo ELSE IF x > hi THEN hi ELSE x

\* C7: the confidence score is
\* clamp(10 - pace - filler_percentage/5 - (10 - volume_stability)/2, 1, 10);
\* wpm 160, filler_percentage 1, volume_stability 9 give 9.3, and 250 wpm
\* costs 50/30.
C7_ConfidenceFormula ==
    (args.fn = "_calculate_confidence_score" /\ ret # None) =>
        /\ ret.value =
               Clamp(10 * Scale - ClaimedPace(args.wpm)
                         - args.filler_percentage \div 5
                         - (10 * Scale - args.volume_stability) \div 2,
                     1 * Scale, 10 * Scale)
        /\ (args.wpm = 160 * Scale /\ args.filler_percentage = 1 * Scale
                /\ args.volume_stability = 9 * Scale) =>
               ret.value = (93 * Scale) \div 10
        /\ (args.wpm = 250 * Scale /\ args.filler_percentage = 0
                /\ args.volume_stability = 10 * Scale) =>
               ret.value = 10 * Scale - (50 * Scale) \div 30

C7_Witness ==
    /\ args.fn = "_calculate_confidence_score"
    /\ ret # None
    /\ args.wpm = 250 * Scale
    /\ args.filler_percentage = 0
    /\ args.volume_stability = 10 * Scale
    /\ ret.value = 10 * Scale - (50 * Scale) \div 30

\* no RMS value is finite and strictly positive
NoValidRms(rms) == \A k \in 1..Len(rms) : ~(rms[k].fin /\ rms[k].v > 0)

\* C8: when the RMS sequence is empty or holds no finite, strictly positive
\* value, the volume stability is the neutral 5.0 and no error is raised;
\* analyze_speech on 4096 samples of silence at 16000 Hz returns metrics
\* with volume_stability 5.0.
C8_NeutralDefault ==
    /\ (pc \in {"scored", "returned"} /\ NoValidRms(audio_features.rms_values)) =>
           (volume_stability = 5 * Scale /\ error = "")
    /\ (pc = "returned" /\ NoValidRms(metrics.rms_values)) =>
           metrics.volume_stability = 5 * Scale
    /\ (audio_data = Silence(4096) /\ sample_rate = 16000) =>
           /\ pc # "raised"
           /\ pc = "returned" => metrics.volume_stability = 5 * Scale

C8_Witness ==
    /\ pc = "returned"
    /\ audio_data = Silence(4096)
    /\ sample_rate = 16000
    /\ Len(metrics.rms_values) > 0
    /\ metrics.volume_stability = 5 * Scale

\* the finite, strictly positive values of an RMS sequence
ValidValues(rms) ==
    Values(SelectSeq(rms, LAMBDA x : x.fin /\ x.v > 0))

\* 10 - 10 * std / mean over vals, clamped to [1, 10]
ClaimedStability(vals) ==
    LET n == Len(vals)
        mean == SumSeq(vals) \div n
        var == SumSeq([k \in 1..n |-> (vals[k] - mean) * (vals[k] - mean)]) \div n
        cv == (ISqrt(var) * Scale) \div mean
    IN  Clamp(10 * Scale - 10 * cv, 1 * Scale, 10 * Scale)

\* C9: with at least one finite, strictly positive RMS value the volume
\* stability is clamp(10 - 10 cv, 1, 10), cv = std/mean over the finite,
\* strictly positive values alone; it lies in [1, 10], and a constant
\* positive RMS sequence scores 10.
C9_StabilityFormula ==
    (args.fn = "_calculate_volume_stability" /\ ret # None
        /\ ~NoValidRms(args.rms_values)) =>
        LET vals == ValidValues(args.rms_values)
        IN  /\ ret.value = ClaimedStability(vals)
            /\ ret.value >= 1 * Scale
            /\ ret.value <= 10 * Scale
            /\ (\A k \in 1..Len(vals) : vals[k] = vals[1]) => ret.value = 10 * Scale

\* zero and non-finite frames next to two different positive ones
C9_Witness ==
    /\ args.fn = "_calculate_volume_stability"
    /\ ret # None
    /\ args.rms_values = << F(0), F(Scale \div 2), NaN, F(Scale) >>
    /\ ret.value = ClaimedStability(<< Scale \div 2, Scale >>)
    /\ ret.value > 1 * Scale
    /\ ret.value < 10 * Scale

\* C10: words_per_minute is (word_count / duration) * 60 when the duration
\* len(samples) / sample_rate is > 0 and 0 when it is 0; a duration of 0
\* gives words_per_minute 0 in the returned metrics and no division error.
C10_WordsPerMinute ==
    /\ pc = "returned" =>
           metrics.words_per_minute =
               IF NumSamples(audio_data) > 0
               THEN (metrics.total_words * 60 * sample_rate * Scale)
                        \div NumSamples(audio_data)
               ELSE 0
    /\ (NumSamples(audio_data) = 0 /\ sample_rate # 0) => pc # "raised"

C10_Witness ==
    /\ pc = "returned"
    /\ NumSamples(audio_data) = 0
    /\ metrics.duration = 0
    /\ metrics.total_words = 2
    /\ metrics.words_per_minute = 0

\* the report analyze_speech_performance returned
Report == ret.value

\* the report is the rule-based one for the metrics of the call
IsFallbackReport ==
    /\ path = "fallback"
    /\ ret = Some(FallbackAnalysis(args.speech_metrics))

\* C11: whatever fails on the external path (the request raising, a message
\* without content, a content that is not JSON, a parsed value whose shape
\* makes the validation raise), analyze_speech_performance does not raise:
\* it returns the fallback report for the metrics it was given.
C11_BackendFailureFallsBack ==
    /\ ai_pc # "raised"
    /\ (ai_pc = "returned" /\ failed # "") => IsFallbackReport
    /\ (ai_pc = "returned" /\ path = "external") =>
           /\ content.t = "str"
           /\ ~content.parsed.none
           /\ result.t = "dict"

\* a call whose validation raised on a score that is not a number, and that
\* returned the fallback report
C11_Witness ==
    /\ ai_pc = "returned"
    /\ failed = "validate"
    /\ result.t = "dict"
    /\ IsFallbackReport

InScoreRange(x) == 1 * Scale <= x /\ x <= 10 * Scale

\* C12: every report analyze_speech_performance returns, from the backend's
\* response or from the fallback, has its three scores within [1, 10].
C12_ScoresInRange ==
    ai_pc = "returned" =>
        \A k \in ScoreKeys : InScoreRange(Report.language_proficiency[k])

\* a report made from a response whose grammar_score was 0
C12_Witness ==
    /\ ai_pc = "returned"
    /\ path = "external"
    /\ "language_proficiency" \in DOMAIN result.fields
    /\ "grammar_score" \in DOMAIN result.fields.language_proficiency.fields
    /\ result.fields.language_proficiency.fields.grammar_score = PyNum(F(0))
    /\ Report.language_proficiency.grammar_score = 1 * Scale

\* a list of strings
IsListOfStrings(x) ==
    IF x.t # "list" THEN FALSE
    ELSE \A k \in 1..Len(x.items) : x.items[k].t = "str"

\* a list of dicts that each carry a title and a description
IsListOfRecommendations(x) ==
    IF x.t # "list" THEN FALSE
    ELSE \A k \in 1..Len(x.items) :
             IF x.items[k].t # "dict" THEN FALSE
             ELSE {"title", "description"} \subseteq DOMAIN x.items[k].fields

\* C13: the report made from any JSON object of the backend has lists of
\* strings as strengths and areas_for_improvement, and recommendations
\* whose every entry carries a title and a description.
C13_ExternalReportValid ==
    (ai_pc = "returned" /\ path = "external") =>
        /\ IsListOfStrings(Report.strengths)
        /\ IsListOfStrings(Report.areas_for_improvement)
        /\ IsListOfRecommendations(Report.recommendations)

\* the fallback report of a call, and the metrics it was made from
FallbackReturned == ai_pc = "returned" /\ path = "fallback"

Wpm == args.speech_metrics.words_per_minute

FillerPercentage == args.speech_metrics.filler_percentage

Stability == args.speech_metrics.volume_stability

\* the thresholds as the claims state them
PaceOptimal == 140 * Scale <= Wpm /\ Wpm <= 180 * Scale

PaceTooSlow == Wpm < 120 * Scale

PaceTooFast == Wpm > 200 * Scale

FillersLow == FillerPercentage < 2 * Scale

FillersHigh == FillerPercentage > 5 * Scale

VolumeSteady == Stability >= 7 * Scale

Populated(x) == x.t = "str" /\ Len(x.s) > 0

\* C14: the fallback report has every field populated and non-empty
\* strengths, areas_for_improvement and recommendations; a list for which
\* no threshold triggered holds exactly its one generic entry.
C14_FallbackNeverEmpty ==
    FallbackReturned =>
        /\ Populated(Report.overall_assessment)
        /\ Populated(Report.language_proficiency.level)
        /\ Populated(Report.language_proficiency.explanation)
        /\ \A k \in ScoreKeys : Report.language_proficiency[k] \in Int
        /\ IsListOfStrings(Report.strengths)
        /\ IsListOfStrings(Report.areas_for_improvement)
        /\ IsListOfRecommendations(Report.recommendations)
        /\ Len(Report.strengths.items) >= 1
        /\ Len(Report.areas_for_improvement.items) >= 1
        /\ Len(Report.recommendations.items) >= 1
        /\ \A k \in 1..Len(Report.strengths.items) :
               Populated(Report.strengths.items[k])
        /\ \A k \in 1..Len(Report.areas_for_improvement.items) :
               Populated(Report.areas_for_improvement.items[k])
        /\ \A k \in 1..Len(Report.recommendations.items) :
               /\ Populated(Report.recommendations.items[k].fields.title)
               /\ Populated(Report.recommendations.items[k].fields.description)
        /\ (~PaceOptimal /\ ~FillersLow /\ ~VolumeSteady) =>
               Report.strengths.items
                   = << PyStr("Speech analysis completed successfully") >>
        /\ (~PaceTooSlow /\ ~PaceTooFast /\ ~FillersHigh /\ VolumeSteady) =>
               /\ Report.areas_for_improvement.items
                      = << PyStr("Continue practicing for improvement") >>
               /\ Len(Report.recommendations.items) = 1
               /\ Report.recommendations.items[1].fields.title
                      = PyStr("General Practice")

\* a fallback report with nothing to improve: one generic finding and one
\* generic recommendation
C14_Witness ==
    /\ FallbackReturned
    /\ ~PaceTooSlow /\ ~PaceTooFast /\ ~FillersHigh /\ VolumeSteady
    /\ Report.areas_for_improvement.items
           = << PyStr("Continue practicing for improvement") >>
    /\ Report.recommendations.items[1].fields.title = PyStr("General Practice")

\* the list holds the string
HasEntry(list, text) ==
    \E k \in 1..Len(list.items) : list.items[k] = PyStr(text)

\* the list holds a recommendation with the title
HasTitle(list, title) ==
    \E k \in 1..Len(list.items) : list.items[k].fields.title = PyStr(title)

\* C15: in the fallback report the pace strength is present iff
\* 140 <= wpm <= 180, the too-slow finding and recommendation iff wpm < 120,
\* the too-fast ones iff wpm > 200; the filler strength iff the filler
\* percentage is below 2, the filler finding and recommendation iff it is
\* above 5; the volume strength iff the stability is at least 7, and the
\* volume finding and recommendation otherwise.
C15_FallbackThresholds ==
    FallbackReturned =>
        /\ HasEntry(Report.strengths,
                    "Excellent speaking pace - clear and easy to follow")
               <=> PaceOptimal
        /\ HasEntry(Report.areas_for_improvement,
                    "Speaking pace is quite slow - consider increasing tempo")
               <=> PaceTooSlow
        /\ HasTitle(Report.recommendations, "Increase Speaking Pace")
               <=> PaceTooSlow
        /\ HasEntry(Report.areas_for_improvement,
                    "Speaking pace is very fast - consider slowing down")
               <=> PaceTooFast
        /\ HasTitle(Report.recommendations, "Moderate Speaking Pace")
               <=> PaceTooFast
        /\ HasEntry(Report.strengths, "Excellent control of filler words")
               <=> FillersLow
        /\ HasEntry(Report.areas_for_improvement,
                    "High usage of filler words detected")
               <=> FillersHigh
        /\ HasTitle(Report.recommendations, "Reduce Filler Words")
               <=> FillersHigh
        /\ HasEntry(Report.strengths, "Good volume control and consistency")
               <=> VolumeSteady
        /\ HasEntry(Report.areas_for_improvement, "Volume inconsistency detected")
               <=> ~VolumeSteady
        /\ HasTitle(Report.recommendations, "Improve Volume Consistency")
               <=> ~VolumeSteady

\* a fallback report for a pace just under 140 wpm and 3 % of fillers:
\* neither a pace entry nor a filler entry
C15_Witness ==
    /\ FallbackReturned
    /\ Wpm = 140 * Scale - 1
    /\ FillerPercentage = 3 * Scale
    /\ ~VolumeSteady
    /\ Report.strengths.items
           = << PyStr("Speech analysis completed successfully") >>
    /\ Report.areas_for_improvement.items
           = << PyStr("Volume inconsistency detected") >>

\* 270 times the composite (10 - fp/2 + vs + min(10, wpm/15)) / 3 of the
\* claims, in fixed point: an integer, so that comparisons are exact
Composite270 ==
    45 * (20 * Scale - FillerPercentage) + 90 * Stability
        + (IF Wpm >= 150 * Scale THEN 900 * Scale ELSE 6 * Wpm)

\* composite >= n, for an integer n
CompositeAtLeast(n) == Composite270 >= 270 * n * Scale

\* C16: the level of the fallback report is "Advanced" iff the composite is
\* at least 8, "Intermediate" iff it is at least 6 and below 8, "Beginner"
\* otherwise, and nothing else.
C16_FallbackLevel ==
    FallbackReturned =>
        LET level == Report.language_proficiency.level.s
        IN  /\ level \in {"Advanced", "Intermediate", "Beginner"}
            /\ level = "Advanced" <=> CompositeAtLeast(8)
            /\ level = "Intermediate" <=>
                   (CompositeAtLeast(6) /\ ~CompositeAtLeast(8))
            /\ level = "Beginner" <=> ~CompositeAtLeast(6)

\* fallback reports whose composite is exactly 8, rated "Advanced"
C16_Witness ==
    /\ FallbackReturned
    /\ Composite270 = 270 * 8 * Scale
    /\ Report.language_proficiency.level = PyStr("Advanced")

\* clamp(int(x), 1, 10) for x = num / den, den > 0, as a score: the integer
\* part of x, towards zero
ClaimedScore(num, den) ==
    LET int == CHOOSE i \in -100..100 :
                   IF num >= 0 THEN i * den <= num /\ num < (i + 1) * den
                   ELSE (i - 1) * den < num /\ num <= i * den
    IN  Clamp(int, 1, 10) * Scale

\* C17: in the fallback report grammar_score and vocabulary_score are both
\* clamp(int(composite), 1, 10) and fluency_score is
\* clamp(int(10 - filler_percentage / 2), 1, 10); hence the two are equal,
\* "Advanced" comes with a grammar_score of at least 8, "Intermediate" with
\* 6 or 7, "Beginner" with at most 5.
C17_FallbackScores ==
    FallbackReturned =>
        LET lp == Report.language_proficiency
        IN  /\ lp.grammar_score = ClaimedScore(Composite270, 270 * Scale)
            /\ lp.vocabulary_score = ClaimedScore(Composite270, 270 * Scale)
            /\ lp.fluency_score
                   = ClaimedScore(20 * Scale - FillerPercentage, 2 * Scale)
            /\ lp.grammar_score = lp.vocabulary_score
            /\ lp.level.s = "Advanced" => lp.grammar_score >= 8 * Scale
            /\ lp.level.s = "Intermediate" =>
                   lp.grammar_score \in {6 * Scale, 7 * Scale}
            /\ lp.level.s = "Beginner" => lp.grammar_score <= 5 * Scale

\* an "Intermediate" fallback report whose composite lies between 7.5 and 8
\* and whose grammar_score is 7
C17_Witness ==
    /\ FallbackReturned
    /\ 2 * Composite270 > 270 * 15 * Scale
    /\ ~CompositeAtLeast(8)
    /\ Report.language_proficiency.level = PyStr("Intermediate")
    /\ Report.language_proficiency.grammar_score = 7 * Scale

\* C20: one invocation asks the backend at most once, not at all without a
\* client, and a failed request is followed by the fallback report with no
\* further request.
C20_AtMostOneRequest ==
    /\ [](/\ requests <= 1
          /\ client.none => requests = 0
          /\ (ai_pc = "returned" /\ failed = "request") =>
                 (requests = 1 /\ IsFallbackReport))
    /\ [][(failed' = "request" /\ failed = "") =>
              (requests' = 1 /\ ai_pc' = "except")]_vars
    /\ [][ai_pc = "except" =>
              (ai_pc' = "returned" /\ path' = "fallback"
                   /\ requests' = requests)]_vars

\* a call whose single request failed and that returned the fallback report
C20_Witness ==
    /\ ai_pc = "returned"
    /\ failed = "request"
    /\ requests = 1
    /\ IsFallbackReport

\* the multi-word fillers in the order of the dictionary
ClaimedMultiOrder == << "you know", "i mean", "sort of", "kind of", "you see" >>

\* when the analyzer first finds a filler that occurs in chars: a
\* single-word filler at its first token, in transcript order; then the
\* multi-word fillers, in dictionary order
Discovery(chars, f) ==
    IF f \in ClaimedSingleFillers
    THEN CHOOSE p \in Occurrences(chars, f) :
             \A q \in Occurrences(chars, f) : p <= q
    ELSE Len(chars) + (CHOOSE k \in 1..Len(ClaimedMultiOrder) :
                           ClaimedMultiOrder[k] = f)

\* filler f ranks before filler g: more occurrences, or as many and found
\* first
RanksBefore(chars, f, g) ==
    LET nf == Cardinality(Occurrences(chars, f))
        ng == Cardinality(Occurrences(chars, g))
    IN  nf > ng \/ (nf = ng /\ Discovery(chars, f) < Discovery(chars, g))

\* C18: common_fillers holds at most five fillers, all different, each
\* occurring in the transcript, by descending number of occurrences and,
\* among equals, in the order the analyzer found them first; a filler left
\* out ranks after all five.
C18_CommonFillers ==
    (args.fn = "_analyze_text" /\ ret # None) =>
        LET low == Lower(args.transcript)
            common == ret.value.common_fillers
            listed == {common[k] : k \in 1..Len(common)}
            occurring == {f \in ClaimedSingleFillers \cup ClaimedMultiFillers :
                             Occurrences(low, f) # {}}
        IN  /\ Len(common) <= 5
            /\ Cardinality(listed) = Len(common)
            /\ listed \subseteq occurring
            /\ \A i \in 1..Len(common) : \A j \in (i + 1)..Len(common) :
                   RanksBefore(low, common[i], common[j])
            /\ \A f \in occurring \ listed :
                   /\ Len(common) = 5
                   /\ \A k \in 1..5 : RanksBefore(low, common[k], f)

\* seven fillers found: the one found three times, the two found twice in
\* the order found, then the first two of those found once
C18_Witness ==
    /\ args.fn = "_analyze_text"
    /\ ret # None
    /\ args.transcript = TieScenario
    /\ ret.value.common_fillers = << "er", "so", "you know", "um", "uh" >>

\* nothing but white space
WhitespaceOnly(chars) ==
    \A k \in 1..Len(chars) : chars[k] \in {" ", "\t", "\n"}

\* C19: for an empty or whitespace-only transcript _analyze_text gives
\* word_count 0, filler_count 0, filler_percentage 0, no common fillers and
\* avg_word_length 0, and analyze_speech, given a waveform with samples and
\* a positive sample rate, does not fail: the metrics it returns have
\* words_per_minute 0.
C19_BlankTranscript ==
    WhitespaceOnly(transcript) =>
        /\ pc \in {"text", "scored", "returned"} =>
               text_analysis = [ word_count |-> 0, filler_count |-> 0,
                                 filler_percentage |-> 0,
                                 common_fillers |-> << >>,
                                 avg_word_length |-> 0 ]
        /\ (NumSamples(audio_data) > 0 /\ sample_rate > 0) => pc # "raised"
        /\ pc = "returned" =>
               /\ metrics.total_words = 0
               /\ metrics.filler_count = 0
               /\ metrics.words_per_minute = 0

\* metrics returned for a transcript of a blank, a newline and a tab and a
\* waveform of at least one frame
C19_Witness ==
    /\ pc = "returned"
    /\ transcript = << " ", "\n", "\t" >>
    /\ NumSamples(audio_data) > frame_length
    /\ sample_rate > 0
    /\ text_analysis.word_count = 0
    /\ metrics.words_per_minute = 0

\* C21: once the upload has been written to its temporary file, the file is
\* gone when the handler finishes, whichever way it finishes.
C21_TempFileDeleted ==
    (page.pc = "done" /\ ~page.temp_file_path.none) => ~page.exists

\* the finding and the recommendation that are added together
FindingPairs ==
    { << "Speaking pace is quite slow - consider increasing tempo",
         "Increase Speaking Pace" >>,
      << "Speaking pace is very fast - consider slowing down",
         "Moderate Speaking Pace" >>,
      << "High usage of filler words detected", "Reduce Filler Words" >>,
      << "Volume inconsistency detected", "Improve Volume Consistency" >>,
      << "Continue practicing for improvement", "General Practice" >> }

\* C22: the fallback report has as many areas_for_improvement as
\* recommendations: each finding is there iff its recommendation is, at the
\* same position, and the generic finding iff the generic recommendation.
C22_FindingsMatchRecommendations ==
    FallbackReturned =>
        LET areas == Report.areas_for_improvement.items
            recs == Report.recommendations.items
        IN  /\ Len(areas) = Len(recs)
            /\ \A k \in 1..Len(areas) :
                   \E pr \in FindingPairs :
                       /\ areas[k] = PyStr(pr[1])
                       /\ k <= Len(recs)
                       /\ recs[k].fields.title = PyStr(pr[2])
            /\ HasEntry(Report.areas_for_improvement,
                        "Continue practicing for improvement")
                   <=> HasTitle(Report.recommendations, "General Practice")

\* a fallback report with three findings and their three recommendations
C22_Witness ==
    /\ FallbackReturned
    /\ PaceTooFast /\ FillersHigh /\ ~VolumeSteady
    /\ Len(Report.areas_for_improvement.items) = 3
    /\ Len(Report.recommendations.items) = 3

\* at least one character that is not white space
HasSpeech(chars) == ~WhitespaceOnly(chars)

\* chars from its first to its last character that is not white space
Trimmed(chars) ==
    LET solid == {k \in 1..Len(chars) : chars[k] \notin {" ", "\t", "\n"}}
    IN  IF solid = {} THEN << >>
        ELSE SubSeq(chars, CHOOSE i \in solid : \A j \in solid : i <= j,
                           CHOOSE i \in solid : \A j \in solid : j <= i)

\* C23: analyze_speech and analyze_speech_performance are only called with
\* a transcript that has a character other than white space; a blank
\* automatic transcript is replaced by the trimmed manual one if that is
\* not blank, and otherwise the handler returns before the analysis; the
\* third branch of the selection is never taken.
C23_AnalysisGetsSpeech ==
    /\ [](/\ page.branch # 3
          /\ \A k \in 1..Len(page.calls) : HasSpeech(page.calls[k][2])
          /\ page.branch = 2 => (page.pc = "done" /\ page.calls = << >>))
    /\ [][page.pc = "transcribed" =>
              IF HasSpeech(page.transcript)
              THEN /\ page'.pc = "selected"
                   /\ page'.transcript = page.transcript
              ELSE IF HasSpeech(page.manual_transcript)
              THEN /\ page'.pc = "selected"
                   /\ page'.transcript = Trimmed(page.manual_transcript)
              ELSE /\ page'.pc = "done"
                   /\ page'.branch = 2]_vars

\* both analyses called with the manual transcript, trimmed, after a blank
\* automatic transcription
C23_Witness ==
    /\ page.branch = 1
    /\ page.manual_transcript = << " ", "u", "h", " " >>
    /\ page.calls = << << "analyze_speech", << "u", "h" >> >>,
                       << "analyze_speech_performance", << "u", "h" >> >> >>

\* the order the loaders are said to be tried in
ClaimedLoaderOrder ==
    << "scipy_wav", "conversion_fallback", "pydub_mp3", "pydub_auto",
       "pydub_wav", "pydub_flv", "pydub_mp4", "pydub_m4a", "pydub_ogg" >>

\* the position in the claimed order of the first loader that decodes the
\* file, 0 when none does
FirstDecoder(file) ==
    LET ks == {k \in 1..Len(ClaimedLoaderOrder) :
                   Decodes(file, ClaimedLoaderOrder[k])}
    IN  IF ks = {} THEN 0 ELSE CHOOSE k \in ks : \A j \in ks : k <= j

\* the loaders attempted are the claimed order up to the first that decodes
LoadedByFirstDecoder ==
    /\ FirstDecoder(loader.file) # 0
    /\ loader.tried = SubSeq(ClaimedLoaderOrder, 1, FirstDecoder(loader.file))

\* C24: _load_audio_with_fallback tries its loaders in the fixed order scipy
\* WAV, WAV re-read, pydub mp3, pydub auto-detect, pydub wav, flv, mp4, m4a,
\* ogg; it returns the result of the first loader that succeeds and attempts
\* no later one; it raises only when all nine failed; load_audio ends by
\* returning a non-empty sample sequence or by raising an error whose message
\* starts with "Failed to load audio file".
C24_LoadersInOrder ==
    /\ [](~loader.none =>
            /\ loader.tried = SubSeq(ClaimedLoaderOrder, 1, Len(loader.tried))
            /\ loader.pc = "loading" =>
                   \A k \in 1..Len(loader.tried) :
                       ~Decodes(loader.file, loader.tried[k])
            /\ loader.pc = "loaded" =>
                   /\ LoadedByFirstDecoder
                   /\ loader.result = Some(<< loader.file.samples,
                                              loader.file.sample_rate >>)
            /\ loader.pc = "returned" =>
                   /\ LoadedByFirstDecoder
                   /\ loader.result = Some(<< loader.file.samples,
                                              loader.file.sample_rate >>)
                   /\ NumSamples(loader.result.value[1]) > 0
            /\ loader.pc = "raised" =>
                   /\ loader.result = None
                   /\ loader.error[1] = "Failed to load audio file: "
                   /\ \/ /\ FirstDecoder(loader.file) = 0
                         /\ loader.tried = ClaimedLoaderOrder
                         /\ loader.error[2] = "All audio loading methods failed: "
                      \/ /\ LoadedByFirstDecoder
                         /\ NumSamples(loader.file.samples) = 0)
    /\ [][~loader.none =>
            IF loader.pc = "loading"
            THEN \/ loader'.tried = loader.tried
                 \/ /\ Len(loader'.tried) = Len(loader.tried) + 1
                    /\ SubSeq(loader'.tried, 1, Len(loader.tried)) = loader.tried
            ELSE loader'.tried = loader.tried]_vars

\* the sixth loader, pydub flv, is the first to decode the file, and
\* load_audio has returned its samples
C24_Witness ==
    /\ ~loader.none
    /\ loader.pc = "returned"
    /\ Len(loader.tried) = 6
    /\ loader.tried[6] = "pydub_flv"
    /\ Len(loader.errors) = 5

\* the keys the two dicts are said to share
SharedKeys == {"duration", "rms_values", "avg_volume_db", "volume_variance",
               "spectral_centroid", "zero_crossing_rate", "tempo"}

BothExtracted ==
    /\ args.fn = "extract_audio_features"
    /\ ~ret.processor.none
    /\ ~ret.analyzer.none

\* C25: on every waveform AudioProcessor.extract_audio_features succeeds
\* exactly when SpeechAnalyzer._extract_audio_features does; when both
\* succeed they return the same value under each of duration, rms_values,
\* avg_volume_db, volume_variance, spectral_centroid, zero_crossing_rate and
\* tempo, the processor's dict holding avg_rms and rms_variance besides and
\* nothing else; when they fail the processor's error is the analyzer's
\* behind "Feature extraction failed: ".
C25_ExtractorsAgree ==
    BothExtracted =>
        LET p == ret.processor.value
            a == ret.analyzer.value
        IN  /\ p.raised = a.raised
            /\ ~p.raised =>
                   /\ DOMAIN a.value = SharedKeys
                   /\ DOMAIN p.value = SharedKeys \cup {"avg_rms", "rms_variance"}
                   /\ \A key \in SharedKeys : p.value[key] = a.value[key]
            /\ p.raised =>
                   p.error = << "Feature extraction failed: " >> \o a.error

\* both have returned for a waveform of several frames of differing volume
C25_Witness ==
    /\ BothExtracted
    /\ ~ret.processor.value.raised
    /\ ~ret.analyzer.value.raised
    /\ Len(ret.processor.value.value.rms_values) >= 3
    /\ \E j, k \in 1..Len(ret.processor.value.value.rms_values) :
           ret.processor.value.value.rms_values[j]
               # ret.processor.value.value.rms_values[k]
    /\ ret.processor.value.value.avg_volume_db.fin

\* a recognition call that raised or returned only whitespace
AttemptFailed(outcome) ==
    outcome.kind # "text" \/ \A k \in 1..Len(outcome.text) :
                                 outcome.text[k] \in {" ", "\n", "\t"}

\* the transcript the two attempts are said to give
ClaimedTranscript(o1, o2) ==
    IF ~AttemptFailed(o1) THEN o1.text
    ELSE IF ~AttemptFailed(o2) THEN o2.text
    ELSE << >>

\* the recognition calls said to be made
ClaimedAttempts(o1) ==
    IF ~AttemptFailed(o1) THEN << "google" >>
    ELSE << "google", "google_en_US" >>

====
